---- MODULE Spec2Model ----
(***************************************************************************)
(* Correlation layer of ib-tws-mcp-server.                                 *)
(*                                                                         *)
(* The repository ships several server entry points; one of them runs in   *)
(* a process.  The variable `server` records which one was started:        *)
(*   "secure"  - the secure server (src/unnamed/part_002)                  *)
(*   "modular" - the modular server (src/unnamed/part_000) with            *)
(*               TWSConnection (src/src/connection.ts)                     *)
(*   "limiter" - the rate limiter and id allocator of the secure and the   *)
(*               enhanced server on their own, with a moving clock         *)
(*   "positions" - the secure server called with getPositions only, with   *)
(*               the position rows delivered to each call recorded         *)
(*   "orders"  - the secure server called with placeOrder and cancelOrder  *)
(*               only, with the event of each dispatch recorded            *)
(*   "stream"  - the modular server called with streamMarketData and       *)
(*               getQuote (src/unnamed/part_001)                           *)
(* Every callback of the single-threaded event loop (a tool call up to its *)
(* first suspension point, the continuation after an await, a timer        *)
(* callback, the dispatch of one gateway event) is one atomic action.      *)
(***************************************************************************)
EXTENDS Integers, Sequences, FiniteSets, TLC

----------------------------------------------------------------------------
(* Bounds of the model *)

\* operations issued in one run of the secure server
MaxOps == 2
\* connect calls and operations issued in one run, together
MaxCalls == 3
\* connect tool calls (each creates one IBApi / TWSConnection object)
MaxConn == 2
\* disconnect tool calls suspended at `await ib.disconnect()` at one time
MaxDisc == 1
\* clock advances in one run of the rate limiter
MaxTicks == 2
\* the counters of resolve / cleanup invocations saturate here
MaxCount == 2
\* rows a snapshot-list operation accumulates
MaxRows == 1
\* position events delivered to one getPositions call of the "positions" run
MaxArrivals == 3
\* the option positions of the largest snapshot
MaxPositions == 51
\* the option positions of an aggregated snapshot
MaxAggregated == 3

----------------------------------------------------------------------------
(* Program constants *)

MAX_REQUESTS_PER_SECOND == 40
\* `now - ts < 1000`
RATE_WINDOW_MS == 1000
\* `let requestCounter = 10000`
INITIAL_REQUEST_COUNTER == 10000
\* `let requestCounter = 1000` of the complete server
COMPLETE_REQUEST_COUNTER == 1000
\* `priceReceived >= 3`
REQUIRED_PRICES == 3
\* requiredDataPoints of MarketDataTools.getQuote
REQUIRED_DATA_POINTS == 4
\* CONFIG.POSITION_DETAILS_BATCH_SIZE of the enhanced server
POSITION_DETAILS_BATCH_SIZE == 50
\* `pos.contract.multiplier || 100`
DEFAULT_MULTIPLIER == 100
\* CONFIG of the secure server; prices are in cents
MAX_ORDER_QUANTITY == 10000
MIN_LIMIT_PRICE == 1
MAX_LIMIT_PRICE == 99999900
\* orderSchema: symbol: z.string().min(1).max(12)
MAX_SYMBOL_LENGTH == 12
\* fixed-point unit of the Greeks: four fraction digits
GREEK_SCALE == 10000
\* `let ib: IBApi | null = null`: the null connection handle
NoConn == 0
\* `${eventName}-${reqId || 'global'}`: an absent or zero reqId is scope 'global'
GlobalScope == 0
\* error codes the global error handler treats as "not connected"
CODE_NOT_CONNECTED == 504
CODE_CONNECT_FAIL == 502
\* the order ids a caller may pass to cancelOrder that no operation was issued
ForeignOrderIds == {1}

VARIABLES
    server,                 \* which entry point runs
    \* --- secure server: module-level state (part_002:32-37)
    ib,                     \* connection handle: NoConn or the IBApi object
    isConnected,
    activeSubscriptions,    \* set of ticker ids (every entry is of type 'market')
    requestCounter,
    requestTimestamps,
    eventListenerCleanup,   \* key <<eventName, scope>> -> handler its closure removes
    \* --- the gateway client objects and the clock
    now,                    \* Date.now()
    ticks,                  \* clock advances so far
    emitters,               \* IBApi object -> sequence of attached handlers
    transport,              \* IBApi object -> "none","connecting","open","closing","closed"
    \* --- calls in flight
    ops,                    \* pending-request closures, in issue order
    connectCalls,           \* connect tool call -> its position
    discCalls,              \* disconnect tool calls suspended at the await, each
                            \* with the operations pending when it was called
    crashed,                \* the process ended through uncaughtException
    lastAct,                \* what the last callback did (its sends and reply)
    admitLog,               \* history: the clock readings of the calls admitted
                            \* within the last second
    arrivals,               \* history of the "positions" run: operation -> the
                            \* position events its positionHandler was called with
    \* --- modular server (part_000) and TWSConnection (connection.ts)
    connection,             \* NoConn or the TWSConnection object
    tws,                    \* TWSConnection object -> its fields and its api
    \* --- enhanced server (part_003): the getPositions / getPortfolioGreeks call
    enhanced                \* its position, its option positions and their
                            \* Greeks sub-requests

secureVars == <<ib, isConnected, activeSubscriptions, requestCounter,
                requestTimestamps, eventListenerCleanup>>
envVars == <<now, ticks, emitters, transport>>
callVars == <<ops, connectCalls, discCalls, crashed>>
modularVars == <<connection, tws>>
vars == <<server, secureVars, envVars, callVars, lastAct, admitLog, arrivals, modularVars,
          enhanced>>

Conns == 1..MaxConn

----------------------------------------------------------------------------
(* Rate limiter and id allocator (part_002:47-65, part_003:51-69) *)

\* variant of prune: the window is one millisecond shorter
pruneShortWindow(stamps, t) == SelectSeq(stamps, LAMBDA ts : t - ts < RATE_WINDOW_MS - 1)

\* requestTimestamps.filter(ts => now - ts < 1000)
prune(stamps, t) == SelectSeq(stamps, LAMBDA ts : t - ts < RATE_WINDOW_MS)

\* variant of checkRateLimit: the ceiling is tested with > instead of >=
checkRateLimitAbove(stamps, t) ==
    LET kept == prune(stamps, t)
    IN IF Len(kept) > MAX_REQUESTS_PER_SECOND
       THEN [ok |-> FALSE, stamps |-> kept]
       ELSE [ok |-> TRUE, stamps |-> Append(kept, t)]

\* checkRateLimit(): the result of one call at clock reading t.
\*   ok = FALSE is the thrown McpError; the pruned window is stored either way,
\*   the timestamp is pushed only when the call is admitted.
checkRateLimit(stamps, t) ==
    LET kept == prune(stamps, t)
    IN IF Len(kept) >= MAX_REQUESTS_PER_SECOND
       THEN [ok |-> FALSE, stamps |-> kept]
       ELSE [ok |-> TRUE, stamps |-> Append(kept, t)]

\* the admissions of the log that lie in the interval (t - 1000, t]
recent(log, t) == SelectSeq(log, LAMBDA a : a > t - RATE_WINDOW_MS)

\* the log of admissions after a call at clock reading t
logged(log, t, ok) == IF ok THEN Append(recent(log, t), t) ELSE recent(log, t)

\* variant of getNextReqId: the counter is returned and not incremented
getNextReqIdNoIncrement(stamps, t, counter) ==
    LET r == checkRateLimit(stamps, t)
    IN IF r.ok
       THEN [ok |-> TRUE, stamps |-> r.stamps, id |-> counter, counter |-> counter]
       ELSE [ok |-> FALSE, stamps |-> r.stamps, id |-> GlobalScope, counter |-> counter]

\* getNextReqId(): checkRateLimit(); return requestCounter++
\*   id is the value returned (meaningful when ok), counter the new requestCounter
getNextReqId(stamps, t, counter) ==
    LET r == checkRateLimit(stamps, t)
    IN IF r.ok
       THEN [ok |-> TRUE, stamps |-> r.stamps, id |-> counter, counter |-> counter + 1]
       ELSE [ok |-> FALSE, stamps |-> r.stamps, id |-> GlobalScope, counter |-> counter]

----------------------------------------------------------------------------
(* The state a callback reads and writes, as one record, so that the       *)
(* handlers of one dispatch can be run one after the other.                *)

Kinds == {"getPositions", "getAccountSummary", "getQuote", "getOptionChain",
          "placeOrder", "getOpenOrders", "cancelOrder"}

Snapshot ==
    [ib |-> ib, isConnected |-> isConnected, subs |-> activeSubscriptions,
     cleanup |-> eventListenerCleanup, emitters |-> emitters, ops |-> ops,
     sends |-> <<>>, resolved |-> <<>>, crashed |-> crashed, event |-> GlobalScope]

Inc(n) == IF n < MaxCount THEN n + 1 ELSE n

\* a call through the handle: `ib.req(...)`, or `ib!.req(...)` in a callback.
\* With ib null the call throws a TypeError; thrown from a timer callback or an
\* event handler it reaches process.on('uncaughtException') (part_002:926-929).
send(s, req, id) ==
    IF s.crashed THEN s
    ELSE IF s.ib = NoConn THEN [s EXCEPT !.crashed = TRUE]
    ELSE [s EXCEPT !.sends = Append(@, <<req, id>>)]

\* emitter.removeListener(eventName, handler); a handler closure is attached once
removeListener(list, h) == SelectSeq(list, LAMBDA x : x # h)

RECURSIVE cleanupNames(_, _, _)
cleanupNames(s, names, reqId) ==
    IF names = <<>> THEN s
    ELSE LET key == <<Head(names), reqId>>
             s1 == IF key \in DOMAIN s.cleanup
                   THEN [s EXCEPT
                           !.emitters[s.ib] = removeListener(@, s.cleanup[key]),
                           !.cleanup = [k \in (DOMAIN s.cleanup) \ {key} |-> s.cleanup[k]]]
                   ELSE s
         IN cleanupNames(s1, Tail(names), reqId)

\* cleanupListeners(eventNames, reqId) (part_002:78-89)
cleanupListeners(s, names, reqId) ==
    IF s.crashed \/ s.ib = NoConn THEN s ELSE cleanupNames(s, names, reqId)

\* addListener(eventName, handler, reqId) (part_002:92-101):
\* a second registration under the same key replaces the first closure
addListener(s, eventName, h, reqId) ==
    IF s.crashed \/ s.ib = NoConn THEN s
    ELSE LET key == <<eventName, reqId>>
         IN [s EXCEPT
               !.emitters[s.ib] = Append(@, h),
               !.cleanup = [k \in (DOMAIN s.cleanup) \cup {key} |->
                               IF k = key THEN h ELSE s.cleanup[k]]]

\* the handler closure of operation i for one event name
OpHandler(i, eventName) == [ev |-> eventName, op |-> i, conn |-> NoConn]
\* the global handler the connect call for object c installs
GlobalHandler(c, eventName) == [ev |-> eventName, op |-> 0, conn |-> c]

\* the names each operation passes to cleanupListeners
CleanupNames(kind) ==
    CASE kind = "getPositions" -> <<"position", "positionEnd">>
      [] kind = "getAccountSummary" -> <<"accountSummary", "accountSummaryEnd">>
      [] kind = "getQuote" -> <<"tickPrice", "tickSize">>
      [] kind = "getOptionChain" ->
            <<"securityDefinitionOptionParameter", "securityDefinitionOptionParameterEnd">>
      [] kind = "placeOrder" -> <<"orderStatus", "openOrder">>
      [] kind = "getOpenOrders" -> <<"openOrder", "openOrderEnd">>
      [] kind = "cancelOrder" -> <<"orderStatus">>

\* the names each operation passes to addListener
ListenNames(kind) ==
    CASE kind = "placeOrder" -> <<"orderStatus">>
      [] OTHER -> CleanupNames(kind)

\* the request each operation sends
Request(kind) ==
    CASE kind = "getPositions" -> "reqPositions"
      [] kind = "getAccountSummary" -> "reqAccountSummary"
      [] kind = "getQuote" -> "reqMktData"
      [] kind = "getOptionChain" -> "reqSecDefOptParams"
      [] kind = "placeOrder" -> "placeOrder"
      [] kind = "getOpenOrders" -> "reqOpenOrders"
      [] kind = "cancelOrder" -> "cancelOrder"

clearTimeout(s, i) ==
    IF s.crashed THEN s
    ELSE [s EXCEPT !.ops[i].timer = IF @ = "armed" THEN "cleared" ELSE @]

\* resolve(...) or reject(...) of the operation's promise: only the first call
\* settles it, with the accumulator as it is at that moment (the value is
\* serialised in the call).  The entry records the path taken (how), whether
\* the caller gets a result or an error (outcome), the id argument of the event
\* being dispatched (by) and the calls the callback made on the gateway client
\* before it settled the promise (sent).
settle(s, i, how, outcome) ==
    IF s.crashed THEN s
    ELSE [s EXCEPT !.ops[i].resolveCalls = Inc(@),
                   !.ops[i].settled = IF @ = "pending" THEN how ELSE @,
                   !.resolved = IF s.ops[i].settled = "pending"
                                THEN Append(@, [op |-> i, how |-> how,
                                                outcome |-> outcome,
                                                by |-> s.event,
                                                sent |-> s.sends,
                                                rows |-> s.ops[i].rows,
                                                fields |-> s.ops[i].fields,
                                                result |-> s.ops[i].result])
                                ELSE @]

\* resolve(...): every settlement of the secure server is a successful result
resolve(s, i, how) == settle(s, i, how, "ok")

\* the cleanupListeners call of operation i's resolution path
cleanupOp(s, i) ==
    IF s.crashed THEN s
    ELSE cleanupListeners([s EXCEPT !.ops[i].cleanupCalls = Inc(@)],
                          CleanupNames(s.ops[i].kind), s.ops[i].id)

subsDelete(s, id) == IF s.crashed THEN s ELSE [s EXCEPT !.subs = @ \ {id}]

\* the body shared by an operation's terminal handler and its timer callback,
\* after the terminal handler's clearTimeout
finish(s, i, how) ==
    LET k == s.ops[i].kind
        id == s.ops[i].id
    IN CASE k = "getAccountSummary" ->
              resolve(send(cleanupOp(s, i), "cancelAccountSummary", id), i, how)
         [] k = "getQuote" ->
              resolve(cleanupOp(subsDelete(send(s, "cancelMktData", id), id), i), i, how)
         [] OTHER -> resolve(cleanupOp(s, i), i, how)

\* the setTimeout callback of operation i
onTimeout(s, i) == finish([s EXCEPT !.ops[i].timer = "fired"], i, "timeout")

\* a terminal handler: clearTimeout(timeout); cleanup; resolve
onTerminal(s, i) == finish(clearTimeout(s, i), i, "terminal")

----------------------------------------------------------------------------
(* Event handlers of the secure server *)

Rows == {"r1", "r2"}
Tags == {"NetLiquidation"}
\* tickPrice types 1 bid, 2 ask, 4 last count towards completion; the types that
\* do not (6 high, 7 low, 9 close) and the tickSize types are handled by the
\* handlers below, and the gateway events drawn are of the counted types
CountedTicks == {"bid", "ask", "last"}
PriceTicks == CountedTicks
Statuses == {"Submitted", "Cancelled", "ApiCancelled"}

\* variant of pushRow: the row is put in front of the rows received before
pushRowFront(s, i, row) == [s EXCEPT !.ops[i].rows = <<row>> \o @]

\* positions.push({...})
pushRow(s, i, row) == [s EXCEPT !.ops[i].rows = Append(@, row)]
setField(s, i, f) == [s EXCEPT !.ops[i].fields = @ \cup {f}]
\* summary[tag] = {value, ...}: the last value written under a tag is kept
setTag(s, i, tag, val) ==
    [s EXCEPT !.ops[i].fields = {f \in @ : f[1] # tag} \cup {<<tag, val>>}]

\* variant of summaryHandler: the id of the event is not compared
summaryHandlerAnyId(s, i, e) == setTag(s, i, e.arg, e.val)

\* summaryHandler (part_002:435-443)
summaryHandler(s, i, e) ==
    IF e.id = s.ops[i].id THEN setTag(s, i, e.arg, e.val) ELSE s

\* priceHandler (part_002:508-538)
priceHandler(s, i, e) ==
    IF e.id = s.ops[i].id /\ e.val > 0
    THEN LET s1 == IF e.arg \in CountedTicks
                   THEN [setField(s, i, e.arg) EXCEPT !.ops[i].priceReceived = @ + 1]
                   ELSE setField(s, i, e.arg)
         IN IF s1.ops[i].priceReceived >= REQUIRED_PRICES
            THEN onTerminal(s1, i)
            ELSE s1
    ELSE s

\* orderStatusHandler of placeOrder (part_002:731-771): the first status with the
\* order's id resolves with the raw status
orderStatusHandler(s, i, e) ==
    IF e.id = s.ops[i].id
    THEN onTerminal([s EXCEPT !.ops[i].result =
                        IF s.ops[i].settled = "pending" THEN e.arg ELSE @], i)
    ELSE s

\* cancelStatusHandler (part_002:867-886)
cancelStatusHandler(s, i, e) ==
    IF e.id = s.ops[i].id /\ e.arg \in {"Cancelled", "ApiCancelled"}
    THEN onTerminal(s, i)
    ELSE s

\* summaryEndHandler (part_002:445-460)
summaryEndHandler(s, i, e) ==
    IF e.id = s.ops[i].id THEN onTerminal(s, i) ELSE s

\* the handler closure h of an operation, called with event e
opHandler(s, h, e) ==
    LET i == h.op
        k == s.ops[i].kind
    IN CASE h.ev = "position" ->                      \* positionHandler: no id test
              IF e.val # 0 THEN pushRow(s, i, e.arg) ELSE s
         [] h.ev = "positionEnd" -> onTerminal(s, i)  \* positionEndHandler: no id test
         [] h.ev = "accountSummary" -> summaryHandler(s, i, e)
         [] h.ev = "accountSummaryEnd" -> summaryEndHandler(s, i, e)
         [] h.ev = "tickPrice" -> priceHandler(s, i, e)
         [] h.ev = "tickSize" ->
              IF e.id = s.ops[i].id THEN setField(s, i, e.arg) ELSE s
         [] h.ev = "securityDefinitionOptionParameter" ->
              \* e.val: the number of expirations left by the filter
              IF e.id = s.ops[i].id /\ e.val > 0 THEN pushRow(s, i, e.arg) ELSE s
         [] h.ev = "securityDefinitionOptionParameterEnd" ->
              IF e.id = s.ops[i].id THEN onTerminal(s, i) ELSE s
         [] h.ev = "orderStatus" /\ k = "placeOrder" -> orderStatusHandler(s, i, e)
         [] h.ev = "orderStatus" /\ k = "cancelOrder" -> cancelStatusHandler(s, i, e)
         [] h.ev = "openOrder" -> pushRow(s, i, e.arg)   \* openOrderHandler: no id test
         [] h.ev = "openOrderEnd" -> onTerminal(s, i)
         [] OTHER -> s

\* the global handlers installed by connect (part_002:265-278)
globalHandler(s, h, e) ==
    CASE h.ev = "error" ->
           IF e.val = CODE_NOT_CONNECTED \/ e.val = CODE_CONNECT_FAIL
           THEN [s EXCEPT !.isConnected = FALSE] ELSE s
      [] h.ev = "connectionClosed" -> [s EXCEPT !.isConnected = FALSE]
      [] OTHER -> s

runHandler(s, h, e) == IF h.op = 0 THEN globalHandler(s, h, e) ELSE opHandler(s, h, e)

\* EventEmitter.emit: the listeners attached when emit starts are called in the
\* order they were attached; an exception thrown by one ends the dispatch
RECURSIVE runHandlers(_, _, _)
runHandlers(s, hs, e) ==
    IF hs = <<>> \/ s.crashed THEN s
    ELSE runHandlers(runHandler(s, Head(hs), e), Tail(hs), e)

emit(s, c, e) ==
    runHandlers([s EXCEPT !.event = e.id],
                SelectSeq(s.emitters[c], LAMBDA h : h.ev = e.name), e)

----------------------------------------------------------------------------
(* Actions of the secure server *)

\* the event field of a callback that is not the dispatch of a gateway event
NoEvent == [name |-> "-", id |-> GlobalScope, arg |-> "-", val |-> 0]

\* what one callback did: the tool it belongs to, whether it passed the rate
\* limiter, the calls it made on the gateway client, its reply to the caller of
\* the tool, and the promises it settled
Act(name, admitted, sends, reply) ==
    [name |-> name, admitted |-> admitted, sends |-> sends, reply |-> reply,
     resolved |-> <<>>, event |-> NoEvent]

\* operation i can no longer be reached: its promise is settled, its timer is
\* not armed, none of its handlers is attached or tracked
unreachable(s, i) ==
    /\ s.ops[i].settled # "pending"
    /\ s.ops[i].timer # "armed"
    /\ \A c \in Conns : \A n \in 1..Len(s.emitters[c]) : s.emitters[c][n].op # i
    /\ \A key \in DOMAIN s.cleanup : s.cleanup[key].op # i

\* the accumulators of an unreachable closure are no longer program state
released(s) ==
    [i \in 1..Len(s.ops) |->
        IF unreachable(s, i)
        THEN [s.ops[i] EXCEPT !.priceReceived = 0, !.fields = {}, !.rows = <<>>,
                              !.result = "none"]
        ELSE s.ops[i]]

\* store what a callback left in the record s
Commit(s) ==
    /\ isConnected' = s.isConnected
    /\ activeSubscriptions' = s.subs
    /\ eventListenerCleanup' = s.cleanup
    /\ emitters' = s.emitters
    /\ ops' = released(s)
    /\ crashed' = s.crashed

\* what a callback that ran on the record s did
ActOf(s, name, admitted, reply) ==
    [name |-> name, admitted |-> admitted, sends |-> s.sends, reply |-> reply,
     resolved |-> s.resolved, event |-> NoEvent]

Running == server \in {"secure", "positions", "orders"} /\ ~crashed

\* connect calls made and operations issued so far
Calls == Len(ops) + Cardinality({k \in Conns : connectCalls[k] # "idle"})

NewOp(kind, id) ==
    [kind |-> kind, id |-> id, timer |-> "armed", settled |-> "pending",
     resolveCalls |-> 0, cleanupCalls |-> 0, priceReceived |-> 0,
     fields |-> {}, rows |-> <<>>, result |-> "none", api |-> NoConn]

RECURSIVE addListeners(_, _, _, _)
addListeners(s, names, i, id) ==
    IF names = <<>> THEN s
    ELSE addListeners(addListener(s, Head(names), OpHandler(i, Head(names)), id),
                      Tail(names), i, id)

\* the executor of `new Promise(...)` of a request-issuing tool: arm the timer,
\* register the handlers, send the request
issue(s, kind, id) ==
    LET i == Len(s.ops) + 1
        s1 == [s EXCEPT !.ops = Append(@, NewOp(kind, id)),
                        !.subs = IF kind = "getQuote" THEN @ \cup {id} ELSE @]
    IN send(addListeners(s1, ListenNames(kind), i, id), Request(kind), id)

\* the order ids a caller may pass to cancelOrder
OrderIdInputs == ForeignOrderIds \cup {ops[i].id : i \in 1..Len(ops)}

\* arguments of placeOrder that pass every check: a symbol is the sequence of
\* its characters, a price a number of cents, a missing limitPrice <<>>
ValidOrder ==
    [symbol |-> <<"A", "0">>, action |-> "BUY", quantity |-> 1,
     orderType |-> "MKT", limitPrice |-> <<>>]

ToolInputs ==
    {[kind |-> k, orderId |-> GlobalScope, testOrder |-> FALSE, order |-> ValidOrder] :
        k \in Kinds \ {"cancelOrder"}}
    \cup {[kind |-> "placeOrder", orderId |-> GlobalScope, testOrder |-> TRUE,
           order |-> ValidOrder]}
    \cup {[kind |-> "cancelOrder", orderId |-> o, testOrder |-> FALSE, order |-> ValidOrder] :
            o \in OrderIdInputs}

\* CONFIG.ALLOWED_SYMBOLS = /^[A-Z0-9]+$/ (part_002:20): the characters it admits
ALLOWED_SYMBOLS ==
    {"A", "B", "C", "D", "E", "F", "G", "H", "I", "J", "K", "L", "M", "N", "O", "P", "Q",
     "R", "S", "T", "U", "V", "W", "X", "Y", "Z",
     "0", "1", "2", "3", "4", "5", "6", "7", "8", "9"}

\* validateSymbol(symbol) (part_002:67-74): TRUE when it does not throw
validateSymbol(symbol) ==
    /\ symbol # <<>>
    /\ \A n \in 1..Len(symbol) : symbol[n] \in ALLOWED_SYMBOLS

\* variant of orderSchema: quantity has no upper limit
orderSchemaNoMax(args) ==
    /\ Len(args.symbol) \in 1..MAX_SYMBOL_LENGTH
    /\ args.action \in {"BUY", "SELL"}
    /\ args.quantity >= 1
    /\ args.orderType \in {"MKT", "LMT"}
    /\ args.limitPrice # <<>> =>
          args.limitPrice[1] >= MIN_LIMIT_PRICE /\ args.limitPrice[1] <= MAX_LIMIT_PRICE

\* orderSchema.parse(args) (part_002:110-118): TRUE when it does not throw
orderSchema(args) ==
    /\ Len(args.symbol) \in 1..MAX_SYMBOL_LENGTH
    /\ args.action \in {"BUY", "SELL"}
    /\ args.quantity >= 1 /\ args.quantity <= MAX_ORDER_QUANTITY
    /\ args.orderType \in {"MKT", "LMT"}
    /\ args.limitPrice # <<>> =>
          args.limitPrice[1] >= MIN_LIMIT_PRICE /\ args.limitPrice[1] <= MAX_LIMIT_PRICE

\* the checks of placeOrder between the connection guard and the test-mode
\* return (part_002:659-668), and the catch block for what they throw
\* (part_002:897-918): "ok", or the message of the McpError the caller gets.
\*   A ZodError is no McpError; its message lists the issues with the values
\*   received, and the catch block looks for 'Not connected' in it.
validateOrder(args) ==
    IF ~orderSchema(args)
    THEN IF args.action = "Not connected" THEN "Lost connection to TWS"
         ELSE "Error executing placeOrder"
    ELSE IF ~validateSymbol(args.symbol) THEN "Invalid symbol format"
    ELSE IF args.orderType = "LMT" /\ args.limitPrice = <<>>
    THEN "Limit price required for limit orders"
    ELSE "ok"

\* variant of testMode: the test flag is not looked at
testModeIgnored(in) == FALSE

\* `if (params.testOrder) return {... status: 'validated' ...}` of placeOrder
\* (part_002:670-682), before getNextReqId()
testMode(in) == in.kind = "placeOrder" /\ in.testOrder

\* a tool call of one of the seven request-issuing tools (part_002:349-892),
\* up to the point where its promise is returned
ToolCall(in) ==
    /\ Running
    /\ Len(ops) < MaxOps
    /\ Calls < MaxCalls
    /\ UNCHANGED <<server, arrivals, enhanced, ib, now, ticks, transport, connectCalls, discCalls, modularVars>>
    /\ IF ib = NoConn \/ ~isConnected
       THEN /\ lastAct' = Act("tool", FALSE, <<>>, "Not connected to TWS")
            /\ UNCHANGED <<isConnected, activeSubscriptions, requestCounter, admitLog,
                           requestTimestamps, eventListenerCleanup, emitters, ops, crashed>>
       ELSE IF in.kind = "placeOrder" /\ validateOrder(in.order) # "ok"
       THEN /\ lastAct' = Act("tool", FALSE, <<>>, validateOrder(in.order))
            /\ isConnected' = (validateOrder(in.order) # "Lost connection to TWS")
            /\ UNCHANGED <<activeSubscriptions, requestCounter, admitLog,
                           requestTimestamps, eventListenerCleanup, emitters, ops, crashed>>
       ELSE IF testMode(in)
       THEN /\ lastAct' = Act("tool", FALSE, <<>>, "validated")
            /\ UNCHANGED <<isConnected, activeSubscriptions, requestCounter, admitLog,
                           requestTimestamps, eventListenerCleanup, emitters, ops, crashed>>
       ELSE IF in.kind = "cancelOrder"
       THEN LET s == issue(Snapshot, in.kind, in.orderId)
            IN /\ Commit(s)
               /\ lastAct' = ActOf(s, "tool", FALSE, "pending")
               /\ UNCHANGED <<requestCounter, requestTimestamps, admitLog>>
       ELSE LET r == getNextReqId(requestTimestamps, now, requestCounter)
            IN /\ requestTimestamps' = r.stamps
               /\ requestCounter' = r.counter
               /\ admitLog' = logged(admitLog, now, r.ok)
               /\ IF r.ok
                  THEN LET s == issue(Snapshot, in.kind, r.id)
                       IN /\ Commit(s)
                          /\ lastAct' = ActOf(s, "tool", TRUE, "pending")
                  ELSE /\ lastAct' = Act("tool", FALSE, <<>>, "Rate limit exceeded")
                       /\ UNCHANGED <<isConnected, activeSubscriptions,
                                      eventListenerCleanup, emitters, ops, crashed>>

\* the setTimeout callback of operation i fires
Timeout(i) ==
    /\ Running
    /\ i \in 1..Len(ops)
    /\ ops[i].timer = "armed"
    /\ LET s == onTimeout(Snapshot, i)
       IN /\ Commit(s)
          /\ lastAct' = ActOf(s, "timeout", FALSE, "none")
    /\ UNCHANGED <<server, arrivals, enhanced, admitLog, ib, requestCounter, requestTimestamps, now, ticks,
                   transport, connectCalls, discCalls, modularVars>>

\* the ids the gateway tags its events with
EventIds == ForeignOrderIds \cup {ops[i].id : i \in 1..Len(ops)}

Event(name, id, arg, val) == [name |-> name, id |-> id, arg |-> arg, val |-> val]

GatewayEvents ==
    {Event("position", GlobalScope, r, v) : r \in Rows, v \in {0, 1}}
    \cup {Event("positionEnd", GlobalScope, "-", 0)}
    \* the value of a summary row tells the request it answers
    \cup {Event("accountSummary", i, t, i) : i \in EventIds, t \in Tags}
    \cup {Event("accountSummaryEnd", i, "-", 0) : i \in EventIds}
    \cup {Event("tickPrice", i, t, 1) : i \in EventIds, t \in PriceTicks}
    \cup {Event("tickPrice", i, "bid", 0) : i \in EventIds}
    \cup {Event("securityDefinitionOptionParameter", i, r, v) :
             i \in EventIds, r \in Rows, v \in {0, 1}}
    \cup {Event("securityDefinitionOptionParameterEnd", i, "-", 0) : i \in EventIds}
    \cup {Event("orderStatus", i, st, 0) : i \in EventIds, st \in Statuses}
    \cup {Event("openOrder", i, r, 0) : i \in EventIds, r \in Rows}
    \cup {Event("openOrderEnd", GlobalScope, "-", 0)}
    \cup {Event("error", GlobalScope, "-", code) :
             code \in {CODE_CONNECT_FAIL, CODE_NOT_CONNECTED, 200}}

\* rows one getPositions call may accumulate in a run
RowBound == IF server = "positions" THEN MaxArrivals ELSE MaxRows

\* the operations whose handler for the event name is attached to object c
listening(c, name) ==
    {emitters[c][n].op : n \in {m \in 1..Len(emitters[c]) : emitters[c][m].ev = name}}

\* history of the "positions" run: the position events the positionHandler of
\* each pending call is called with; the history of a call that has resolved is
\* dropped at the next event
delivered(c, e) ==
    IF server = "positions"
    THEN [i \in 1..MaxOps |->
            IF i \in 1..Len(ops) /\ ops[i].settled # "pending" THEN <<>>
            ELSE IF e.name = "position" /\ i \in listening(c, "position")
            THEN Append(arrivals[i], <<e.arg, e.val>>)
            ELSE arrivals[i]]
    ELSE arrivals

\* history of the "orders" run: the event the last callback dispatched
dispatched(e) == IF server = "orders" THEN e ELSE NoEvent

\* the gateway client object c emits one event of an open session; an event no
\* listener is attached for changes nothing and is left out
Emit(c, e) ==
    /\ Running
    /\ transport[c] = "open"
    /\ \E n \in 1..Len(emitters[c]) : emitters[c][n].ev = e.name
    /\ LET s == emit(Snapshot, c, e)
       IN /\ \A i \in 1..Len(s.ops) : Len(s.ops[i].rows) <= RowBound
          /\ Commit(s)
          /\ lastAct' = [ActOf(s, "event", FALSE, "none") EXCEPT !.event = dispatched(e)]
    /\ arrivals' = delivered(c, e)
    /\ \A i \in 1..MaxOps : Len(arrivals'[i]) <= MaxArrivals
    /\ UNCHANGED <<server, enhanced, admitLog, ib, requestCounter, requestTimestamps, now,
                   ticks, transport, connectCalls, discCalls, modularVars>>

\* the session of object c ends (the gateway dropped it, or the close that
\* ib.disconnect() started completes): the object emits connectionClosed
ConnectionClosed(c) ==
    /\ Running
    /\ transport[c] \in {"open", "closing"}
    /\ transport' = [transport EXCEPT ![c] = "closed"]
    /\ LET s == emit(Snapshot, c, Event("connectionClosed", GlobalScope, "-", 0))
       IN /\ Commit(s)
          /\ lastAct' = ActOf(s, IF transport[c] = "open" THEN "dropped" ELSE "closed",
                              FALSE, "none")
    /\ UNCHANGED <<server, arrivals, enhanced, admitLog, ib, requestCounter, requestTimestamps, now, ticks,
                   connectCalls, discCalls, modularVars>>

----------------------------------------------------------------------------
(* connect and disconnect tools of the secure server (part_002:247-334) *)

\* ib.disconnect() on object c: an open or opening session starts to close
closeTransport(tr, c) ==
    IF tr[c] \in {"connecting", "open"} THEN [tr EXCEPT ![c] = "closing"] ELSE tr

\* `ib = new IBApi(...)`, the two global addListener calls and the call of
\* ib.connect(), which the tool then awaits (part_002:258-280)
createAndConnect(k) ==
    LET s0 == [Snapshot EXCEPT !.ib = k]
        s1 == addListener(s0, "error", GlobalHandler(k, "error"), GlobalScope)
        s2 == addListener(s1, "connectionClosed",
                          GlobalHandler(k, "connectionClosed"), GlobalScope)
    IN /\ ib' = k
       /\ eventListenerCleanup' = s2.cleanup
       /\ emitters' = s2.emitters
       /\ connectCalls' = [connectCalls EXCEPT ![k] = "awaitConnect"]

\* the connect tool is called; k is the IBApi object this call will create
ConnectBegin(k) ==
    /\ Running
    /\ Calls < MaxCalls
    /\ connectCalls[k] = "idle"
    /\ \A j \in Conns : j < k => connectCalls[j] # "idle"
    /\ IF ib # NoConn
       THEN \* `await ib.disconnect()`: the call is suspended
            /\ transport' = closeTransport(transport, ib)
            /\ connectCalls' = [connectCalls EXCEPT ![k] = "awaitDisconnect"]
            /\ lastAct' = Act("connect", FALSE, <<<<"disconnect", ib>>>>, "pending")
            /\ UNCHANGED <<ib, isConnected, eventListenerCleanup, emitters>>
       ELSE /\ createAndConnect(k)
            /\ transport' = [transport EXCEPT ![k] = "connecting"]
            /\ lastAct' = Act("connect", FALSE, <<<<"connect", k>>>>, "pending")
            /\ UNCHANGED isConnected
    /\ UNCHANGED <<server, arrivals, enhanced, admitLog, activeSubscriptions, requestCounter, requestTimestamps,
                   now, ticks, ops, discCalls, crashed, modularVars>>

\* the continuation after `await ib.disconnect()` (part_002:255-280)
ConnectCreate(k) ==
    /\ Running
    /\ connectCalls[k] = "awaitDisconnect"
    /\ isConnected' = FALSE
    /\ createAndConnect(k)
    /\ transport' = [transport EXCEPT ![k] = "connecting"]
    /\ lastAct' = Act("connect:create", FALSE, <<<<"connect", k>>>>, "pending")
    /\ UNCHANGED <<server, arrivals, enhanced, admitLog, activeSubscriptions, requestCounter, requestTimestamps,
                   now, ticks, ops, discCalls, crashed, modularVars>>

\* `await ib.connect()` completes: isConnected = true, then the 1.5 s wait
ConnectEstablished(k) ==
    /\ Running
    /\ connectCalls[k] = "awaitConnect"
    /\ transport[k] = "connecting"
    /\ transport' = [transport EXCEPT ![k] = "open"]
    /\ isConnected' = TRUE
    /\ connectCalls' = [connectCalls EXCEPT ![k] = "stabilising"]
    /\ lastAct' = Act("connect:established", FALSE, <<>>, "pending")
    /\ UNCHANGED <<server, arrivals, enhanced, admitLog, ib, activeSubscriptions, requestCounter, requestTimestamps,
                   eventListenerCleanup, now, ticks, emitters, ops, discCalls,
                   crashed, modularVars>>

\* `await ib.connect()` rejects: the catch block (part_002:897-918) sets
\* isConnected = false when the message names a refused or missing connection
ConnectRejected(k, refused) ==
    /\ Running
    /\ connectCalls[k] = "awaitConnect"
    /\ transport[k] \in {"connecting", "closing", "closed"}
    /\ transport' = [transport EXCEPT ![k] = "closed"]
    /\ isConnected' = IF refused THEN FALSE ELSE isConnected
    /\ connectCalls' = [connectCalls EXCEPT ![k] = "failed"]
    /\ lastAct' = Act("connect:rejected", FALSE, <<>>,
                      IF refused THEN "Lost connection to TWS" ELSE "Error executing connect")
    /\ UNCHANGED <<server, arrivals, enhanced, admitLog, ib, activeSubscriptions, requestCounter, requestTimestamps,
                   eventListenerCleanup, now, ticks, emitters, ops, discCalls,
                   crashed, modularVars>>

\* the stabilisation wait ends and the tool returns status 'connected'
ConnectReturn(k) ==
    /\ Running
    /\ connectCalls[k] = "stabilising"
    /\ connectCalls' = [connectCalls EXCEPT ![k] = "returned"]
    /\ lastAct' = Act("connect:return", FALSE, <<>>, "connected")
    /\ UNCHANGED <<server, arrivals, enhanced, admitLog, secureVars, envVars, ops, discCalls, crashed, modularVars>>

\* the ticker ids of a set, in Map insertion order (ids are issued increasing)
RECURSIVE inOrder(_)
inOrder(S) ==
    IF S = {} THEN <<>>
    ELSE LET m == CHOOSE x \in S : \A y \in S : x <= y
         IN <<m>> \o inOrder(S \ {m})

cancelAll(ids) == [n \in 1..Len(ids) |-> <<"cancelMktData", ids[n]>>]

\* every closure of eventListenerCleanup.values() is called: each removes its
\* handler from the current object's emitter
removeTracked(list, cleanup) ==
    SelectSeq(list, LAMBDA h : \A key \in DOMAIN cleanup : cleanup[key] # h)

\* the disconnect tool up to `await ib.disconnect()` (part_002:301-317), or the
\* whole tool when it answers 'Not connected' (part_002:328-333)
DisconnectBegin ==
    /\ Running
    /\ (ib # NoConn /\ isConnected) => Len(discCalls) < MaxDisc
    /\ IF ib # NoConn /\ isConnected
       THEN /\ activeSubscriptions' = {}
            /\ emitters' = [emitters EXCEPT ![ib] = removeTracked(@, eventListenerCleanup)]
            /\ eventListenerCleanup' = <<>>
            /\ transport' = closeTransport(transport, ib)
            /\ discCalls' = Append(discCalls,
                    [pending |-> {i \in 1..Len(ops) : ops[i].settled = "pending"}])
            /\ lastAct' = Act("disconnect", FALSE,
                              cancelAll(inOrder(activeSubscriptions))
                                  \o <<<<"disconnect", ib>>>>, "pending")
       ELSE /\ lastAct' = Act("disconnect", FALSE, <<>>, "Not connected")
            /\ UNCHANGED <<activeSubscriptions, emitters, eventListenerCleanup,
                           transport, discCalls>>
    /\ UNCHANGED <<server, arrivals, enhanced, admitLog, ib, isConnected, requestCounter, requestTimestamps,
                   now, ticks, ops, connectCalls, crashed, modularVars>>

\* the continuation after `await ib.disconnect()` (part_002:318-326)
DisconnectFinish ==
    /\ Running
    /\ discCalls # <<>>
    /\ ib' = NoConn
    /\ isConnected' = FALSE
    /\ discCalls' = Tail(discCalls)
    /\ lastAct' = Act("disconnect:done", FALSE, <<>>, "Disconnected from TWS")
    /\ UNCHANGED <<server, arrivals, enhanced, admitLog, activeSubscriptions, requestCounter, requestTimestamps,
                   eventListenerCleanup, envVars, ops, connectCalls, crashed, modularVars>>

----------------------------------------------------------------------------
(* Modular server: the connect and disconnect tools (part_000:59-106) and   *)
(* TWSConnection (connection.ts:13-69).  tws.obj[k] holds the fields of the *)
(* TWSConnection object k; transport[k] is the session of its IBApi.        *)
(* tws.target[k]: the object the connect call k is disconnecting;           *)
(* tws.disc: the disconnect tool calls in flight.                           *)

ModRunning == server \in {"modular", "stream", "portfolio"}

\* variant of twsDisconnectCalls: api.disconnect() is called without the guard
twsDisconnectCallsUnguarded(o) == o \in Conns

\* TWSConnection.disconnect() on object o, up to its await (connection.ts:52-54):
\* api.disconnect() is called only when this.connected
twsDisconnectCalls(o) == tws.obj[o].connected

\* the continuation of TWSConnection.disconnect() (connection.ts:55)
twsDisconnected(t, o) == [t EXCEPT !.obj[o].connected = FALSE]

\* the connect tool is called; k is the TWSConnection this call will create
ModConnectBegin(k) ==
    /\ ModRunning
    /\ connectCalls[k] = "idle"
    /\ \A j \in Conns : j < k => connectCalls[j] # "idle"
    /\ Calls < MaxCalls
    /\ IF connection # NoConn
       THEN \* `await connection.disconnect()`
            /\ tws' = [tws EXCEPT !.target[k] = connection]
            /\ UNCHANGED connection
            /\ IF twsDisconnectCalls(connection)
               THEN /\ transport' = closeTransport(transport, connection)
                    /\ connectCalls' = [connectCalls EXCEPT ![k] = "awaitApiDisconnect"]
                    /\ lastAct' = Act("connect", FALSE, <<<<"disconnect", connection>>>>,
                                      "pending")
               ELSE /\ connectCalls' = [connectCalls EXCEPT ![k] = "awaitDisconnect"]
                    /\ lastAct' = Act("connect", FALSE, <<>>, "pending")
                    /\ UNCHANGED transport
       ELSE \* `connection = new TWSConnection(config); await connection.connect()`
            /\ connection' = k
            /\ transport' = [transport EXCEPT ![k] = "connecting"]
            /\ connectCalls' = [connectCalls EXCEPT ![k] = "awaitConnect"]
            /\ lastAct' = Act("connect", FALSE, <<<<"connect", k>>>>, "pending")
            /\ UNCHANGED tws
    /\ UNCHANGED <<server, arrivals, enhanced, admitLog, secureVars, now, ticks, emitters, ops, discCalls, crashed>>

\* TWSConnection.disconnect() resumes after `await this.api.disconnect()`
ModConnectDisconnected(k) ==
    /\ ModRunning
    /\ connectCalls[k] = "awaitApiDisconnect"
    /\ tws' = twsDisconnected(tws, tws.target[k])
    /\ connectCalls' = [connectCalls EXCEPT ![k] = "awaitDisconnect"]
    /\ lastAct' = Act("connect:disconnected", FALSE, <<>>, "pending")
    /\ UNCHANGED <<server, arrivals, enhanced, admitLog, secureVars, envVars, ops, discCalls, crashed, connection>>

\* the tool resumes after `await connection.disconnect()` (part_000:65-66)
ModConnectCreate(k) ==
    /\ ModRunning
    /\ connectCalls[k] = "awaitDisconnect"
    /\ connection' = k
    /\ transport' = [transport EXCEPT ![k] = "connecting"]
    /\ connectCalls' = [connectCalls EXCEPT ![k] = "awaitConnect"]
    /\ lastAct' = Act("connect:create", FALSE, <<<<"connect", k>>>>, "pending")
    /\ UNCHANGED <<server, arrivals, enhanced, admitLog, secureVars, now, ticks, emitters, ops, discCalls, crashed, tws>>

\* `await this.api.connect(...)` completes: this.connected = true and the three
\* api.on(...) subscriptions (connection.ts:30-44)
ModConnectEstablished(k) ==
    /\ ModRunning
    /\ connectCalls[k] = "awaitConnect"
    /\ transport[k] = "connecting"
    /\ transport' = [transport EXCEPT ![k] = "open"]
    /\ tws' = [tws EXCEPT !.obj[k] = [connected |-> TRUE, listening |-> TRUE]]
    /\ connectCalls' = [connectCalls EXCEPT ![k] = "awaitReturn"]
    /\ lastAct' = Act("connect:established", FALSE, <<>>, "pending")
    /\ UNCHANGED <<server, arrivals, enhanced, admitLog, secureVars, now, ticks, emitters, ops, discCalls, crashed,
                   connection>>

\* `await this.api.connect(...)` rejects: the catch block sets this.connected =
\* false and throws; the tool answers with an McpError (connection.ts:46-49)
ModConnectRejected(k) ==
    /\ ModRunning
    /\ connectCalls[k] = "awaitConnect"
    /\ transport[k] \in {"connecting", "closing", "closed"}
    /\ transport' = [transport EXCEPT ![k] = "closed"]
    /\ tws' = [tws EXCEPT !.obj[k].connected = FALSE]
    /\ connectCalls' = [connectCalls EXCEPT ![k] = "failed"]
    /\ lastAct' = Act("connect:rejected", FALSE, <<>>, "Failed to connect")
    /\ UNCHANGED <<server, arrivals, enhanced, admitLog, secureVars, now, ticks, emitters, ops, discCalls, crashed,
                   connection>>

\* the tool resumes after `await connection.connect()` and answers
ModConnectReturn(k) ==
    /\ ModRunning
    /\ connectCalls[k] = "awaitReturn"
    /\ connectCalls' = [connectCalls EXCEPT ![k] = "returned"]
    /\ lastAct' = Act("connect:return", FALSE, <<>>, "Connected to TWS")
    /\ UNCHANGED <<server, arrivals, enhanced, admitLog, secureVars, envVars, ops, discCalls, crashed, modularVars>>

\* the disconnect tool is called (part_000:84-105)
ModDisconnectBegin ==
    /\ ModRunning
    /\ connection # NoConn => Len(tws.disc) < MaxDisc
    /\ IF connection # NoConn
       THEN IF twsDisconnectCalls(connection)
            THEN /\ transport' = closeTransport(transport, connection)
                 /\ tws' = [tws EXCEPT !.disc = Append(@, [target |-> connection,
                                                           pc |-> "awaitApiDisconnect"])]
                 /\ lastAct' = Act("disconnect", FALSE, <<<<"disconnect", connection>>>>,
                                   "pending")
            ELSE /\ tws' = [tws EXCEPT !.disc = Append(@, [target |-> connection,
                                                           pc |-> "awaitDisconnect"])]
                 /\ lastAct' = Act("disconnect", FALSE, <<>>, "pending")
                 /\ UNCHANGED transport
       ELSE /\ lastAct' = Act("disconnect", FALSE, <<>>, "Not connected to TWS")
            /\ UNCHANGED <<transport, tws>>
    /\ UNCHANGED <<server, arrivals, enhanced, admitLog, secureVars, now, ticks, emitters, callVars, connection>>

\* TWSConnection.disconnect() resumes inside the disconnect tool call n
ModDisconnectDisconnected(n) ==
    /\ ModRunning
    /\ n \in 1..Len(tws.disc)
    /\ tws.disc[n].pc = "awaitApiDisconnect"
    /\ tws' = [twsDisconnected(tws, tws.disc[n].target) EXCEPT
                  !.disc[n].pc = "awaitDisconnect"]
    /\ lastAct' = Act("disconnect:disconnected", FALSE, <<>>, "pending")
    /\ UNCHANGED <<server, arrivals, enhanced, admitLog, secureVars, envVars, callVars, connection>>

\* the disconnect tool resumes: connection = null and the answer (part_000:87-95)
ModDisconnectFinish(n) ==
    /\ ModRunning
    /\ n \in 1..Len(tws.disc)
    /\ tws.disc[n].pc = "awaitDisconnect"
    /\ connection' = NoConn
    /\ tws' = [tws EXCEPT !.disc = SubSeq(@, 1, n - 1) \o SubSeq(@, n + 1, Len(@))]
    /\ lastAct' = Act("disconnect:done", FALSE, <<>>, "Disconnected from TWS")
    /\ UNCHANGED <<server, arrivals, enhanced, admitLog, secureVars, envVars, callVars>>

\* the session of object k ends and its IBApi emits 'disconnected'; the handler
\* installed by connect() (connection.ts:41-44) sets this.connected = false
ModDisconnected(k) ==
    /\ ModRunning
    /\ transport[k] \in {"open", "closing"}
    /\ transport' = [transport EXCEPT ![k] = "closed"]
    /\ tws' = IF tws.obj[k].listening THEN [tws EXCEPT !.obj[k].connected = FALSE]
              ELSE tws
    /\ lastAct' = Act(IF transport[k] = "open" THEN "dropped" ELSE "closed",
                      FALSE, <<>>, "none")
    /\ UNCHANGED <<server, arrivals, enhanced, admitLog, secureVars, now, ticks, emitters, callVars, connection>>

----------------------------------------------------------------------------
(* Modular server: the tools of part_001, run by the request handler of     *)
(* part_000:108-140.  A tool captures `api = connection.getApi()`, attaches *)
(* its handlers with api.on and removes them with api.removeAllListeners.   *)

\* the tools of the modular server that are modelled
ModKinds == {"getAccountSummary"}

\* Math.floor(Math.random() * 10000): the request ids a tool may draw
ModIds == {1, 2}

\* api.removeAllListeners(eventName) on the IBApi of object c
removeAllListeners(s, c, eventName) ==
    [s EXCEPT !.emitters[c] = SelectSeq(@, LAMBDA h : h.ev # eventName)]

\* a call on the captured api
apiSend(s, req, id) == [s EXCEPT !.sends = Append(@, <<req, id>>)]

\* the executors of PortfolioTools.getAccountSummary (part_001:335-360), of
\* PortfolioTools.getPositions (part_001:276-306) and of MarketDataTools.getQuote
\* (part_001:26-99): arm the timer, api.on for both events, send the request
modIssue(s, kind, id, c) ==
    LET i == Len(s.ops) + 1
        s1 == [s EXCEPT !.ops = Append(@, [NewOp(kind, id) EXCEPT !.api = c])]
        s2 == [s1 EXCEPT !.emitters[c] =
                  @ \o IF kind = "getQuote"
                       THEN <<OpHandler(i, "tickPrice"), OpHandler(i, "tickSize")>>
                       ELSE IF kind = "getPositions"
                       THEN <<OpHandler(i, "position"), OpHandler(i, "positionEnd")>>
                       ELSE <<OpHandler(i, "accountSummary"),
                              OpHandler(i, "accountSummaryEnd")>>]
    IN apiSend(s2, Request(kind), id)

\* MarketDataTools.streamMarketData (part_001:204-257): the unsubscribe branch
\* is taken when subscribe is false and tickerId is truthy; every other call
\* subscribes under args.tickerId || Math.floor(Math.random() * 10000)
streamMarketData(s, in, rnd, c) ==
    IF ~in.subscribe /\ in.hasTicker /\ in.tickerId # 0
    THEN apiSend(s, "cancelMktData", in.tickerId)
    ELSE LET i == Len(s.ops) + 1
             tickerId == IF in.hasTicker /\ in.tickerId # 0 THEN in.tickerId ELSE rnd
             s1 == [s EXCEPT !.ops = Append(@, [NewOp("streamMarketData", tickerId)
                                                   EXCEPT !.api = c])]
             s2 == [s1 EXCEPT !.emitters[c] =
                       @ \o <<OpHandler(i, "tickPrice"), OpHandler(i, "tickSize")>>]
         IN apiSend(s2, "reqMktData", tickerId)

\* the timer callbacks.  getAccountSummary (part_001:336-340): the listeners of
\* both events are removed and the promise is rejected.  getQuote
\* (part_001:36-45): the listeners of both events are removed, the request is
\* cancelled, and the promise is resolved when a data point was counted.
\* streamMarketData (part_001:249-257): the initial response.  getPositions
\* (part_001:277-281): the listeners of both events are removed and the promise
\* is rejected.
modOnTimeout(s, i) ==
    LET c == s.ops[i].api
        k == s.ops[i].kind
        s1 == [s EXCEPT !.ops[i].timer = "fired"]
    IN CASE k = "getQuote" ->
              LET s2 == removeAllListeners(removeAllListeners(s1, c, "tickPrice"),
                                           c, "tickSize")
              IN settle(apiSend(s2, "cancelMktData", s.ops[i].id), i, "timeout",
                        IF s.ops[i].priceReceived > 0 THEN "ok" ELSE "error")
         [] k = "streamMarketData" -> settle(s1, i, "initial", "ok")
         [] k = "getPositions" ->
              LET s2 == removeAllListeners(removeAllListeners(s1, c, "position"),
                                           c, "positionEnd")
              IN settle(s2, i, "timeout", "error")
         [] OTHER ->
              LET s2 == removeAllListeners(removeAllListeners(s1, c, "accountSummary"),
                                           c, "accountSummaryEnd")
              IN settle(s2, i, "timeout", "error")

\* the handlers (part_001:342-357).  Neither compares the id of the event with
\* the id of the request; the end handler cancels the id the event carries
\* (its parameter reqId hides the request's reqId).
modHandler(s, h, e) ==
    LET i == h.op
        c == s.ops[i].api
        k == s.ops[i].kind
        counted(f) == [setField(s, i, f) EXCEPT !.ops[i].priceReceived =
                          IF @ < REQUIRED_DATA_POINTS THEN @ + 1 ELSE @]
    IN CASE h.ev = "accountSummary" -> setTag(s, i, e.arg, e.val)
         \* getQuote (part_001:47-95): no id test; dataPoints counts events; the
         \* completing tick cancels the id the event carries
         [] h.ev = "tickPrice" /\ k = "getQuote" ->
              LET s1 == IF e.arg \in CountedTicks THEN counted(e.arg) ELSE s
              IN IF s1.ops[i].priceReceived >= REQUIRED_DATA_POINTS
                 THEN LET s2 == clearTimeout(s1, i)
                          s3 == removeAllListeners(removeAllListeners(s2, c, "tickPrice"),
                                                   c, "tickSize")
                      IN settle(apiSend(s3, "cancelMktData", e.id), i, "terminal", "ok")
                 ELSE s1
         [] h.ev = "tickSize" /\ k = "getQuote" ->
              IF e.arg = "volume" THEN counted(e.arg) ELSE s
         \* streamMarketData (part_001:223-243): updates.push when the id matches
         [] h.ev \in {"tickPrice", "tickSize"} /\ k = "streamMarketData" ->
              IF e.id = s.ops[i].id THEN pushRow(s, i, e.arg) ELSE s
         [] h.ev = "accountSummaryEnd" ->
              LET s1 == clearTimeout(s, i)
                  s2 == removeAllListeners(removeAllListeners(s1, c, "accountSummary"),
                                           c, "accountSummaryEnd")
              IN settle(apiSend(s2, "cancelAccountSummary", e.id), i, "terminal", "ok")
         \* getPositions (part_001:283-303): every row is pushed; the end handler
         \* clears the timer, removes the listeners of both events and resolves
         [] h.ev = "position" -> pushRow(s, i, e.arg)
         [] h.ev = "positionEnd" ->
              LET s1 == clearTimeout(s, i)
                  s2 == removeAllListeners(removeAllListeners(s1, c, "position"),
                                           c, "positionEnd")
              IN settle(s2, i, "terminal", "ok")
         [] OTHER -> s

RECURSIVE modRunHandlers(_, _, _)
modRunHandlers(s, hs, e) ==
    IF hs = <<>> THEN s
    ELSE modRunHandlers(modHandler(s, Head(hs), e), Tail(hs), e)

modEmit(s, c, e) ==
    modRunHandlers([s EXCEPT !.event = e.id],
                   SelectSeq(s.emitters[c], LAMBDA h : h.ev = e.name), e)

\* a tool call of the modular server, up to the point where its promise is
\* returned (part_000:108-126)
ModToolCall(kind, id) ==
    /\ ModRunning
    /\ Len(ops) < MaxOps
    /\ Calls < MaxCalls
    /\ IF connection = NoConn \/ ~tws.obj[connection].connected
       THEN /\ lastAct' = Act("tool", FALSE, <<>>, "Not connected to TWS")
            /\ UNCHANGED <<emitters, ops>>
       ELSE LET s == modIssue(Snapshot, kind, id, connection)
            IN /\ emitters' = s.emitters
               /\ ops' = s.ops
               /\ lastAct' = ActOf(s, "tool", FALSE, "pending")
    /\ UNCHANGED <<server, arrivals, enhanced, admitLog, secureVars, now, ticks, transport, connectCalls,
                   discCalls, crashed, modularVars>>

\* the setTimeout callback of operation i fires
ModTimeout(i) ==
    /\ ModRunning
    /\ i \in 1..Len(ops)
    /\ ops[i].timer = "armed"
    /\ LET s == modOnTimeout(Snapshot, i)
       IN /\ emitters' = s.emitters
          /\ ops' = released(s)
          /\ lastAct' = ActOf(s, "timeout", FALSE, "none")
    /\ UNCHANGED <<server, arrivals, enhanced, admitLog, secureVars, now, ticks, transport, connectCalls,
                   discCalls, crashed, modularVars>>

\* the ids the gateway tags its events with
ModEventIds == {ops[i].id : i \in 1..Len(ops)}

ModGatewayEvents ==
    {Event("accountSummary", i, t, i) : i \in ModEventIds, t \in Tags}
    \cup {Event("accountSummaryEnd", i, "-", 0) : i \in ModEventIds}

\* the IBApi of object c emits one event of an open session
ModEmit(c, e) ==
    /\ ModRunning
    /\ transport[c] = "open"
    /\ \E n \in 1..Len(emitters[c]) : emitters[c][n].ev = e.name
    /\ LET s == modEmit(Snapshot, c, e)
       IN /\ \A i \in 1..Len(s.ops) : Len(s.ops[i].rows) <= MaxRows
          /\ emitters' = s.emitters
          /\ ops' = released(s)
          /\ lastAct' = ActOf(s, "event", FALSE, "none")
    /\ UNCHANGED <<server, arrivals, enhanced, admitLog, secureVars, now, ticks, transport, connectCalls,
                   discCalls, crashed, modularVars>>

\* the arguments of streamMarketData: subscribe, and tickerId absent or given
StreamInputs ==
    {[subscribe |-> b, hasTicker |-> FALSE, tickerId |-> 0] : b \in BOOLEAN}
    \cup {[subscribe |-> b, hasTicker |-> TRUE, tickerId |-> t] :
             b \in BOOLEAN, t \in {0} \cup ModIds}

\* a streamMarketData call of the modular server (part_000:108-126)
ModStreamCall(in, rnd) ==
    /\ ModRunning
    /\ Len(ops) < MaxOps
    /\ Calls < MaxCalls
    /\ LET name == IF in.subscribe THEN "stream:subscribe" ELSE "stream:unsubscribe"
       IN IF connection = NoConn \/ ~tws.obj[connection].connected
          THEN /\ lastAct' = Act(name, FALSE, <<>>, "Not connected to TWS")
               /\ UNCHANGED <<emitters, ops>>
          ELSE LET s == streamMarketData(Snapshot, in, rnd, connection)
               IN /\ emitters' = s.emitters
                  /\ ops' = s.ops
                  /\ lastAct' = ActOf(s, name, FALSE,
                                      IF Len(s.ops) = Len(ops)
                                      THEN "Unsubscribed from market data" ELSE "pending")
    /\ UNCHANGED <<server, arrivals, enhanced, admitLog, secureVars, now, ticks, transport, connectCalls,
                   discCalls, crashed, modularVars>>

\* the tick events the gateway sends for market-data requests: tickPrice of
\* type BID and tickSize of type VOLUME
StreamEvents ==
    {Event("tickPrice", i, "bid", 1) : i \in ModEventIds}
    \cup {Event("tickSize", i, "volume", 1) : i \in ModEventIds}

ModularNext ==
    \/ \E kind \in ModKinds : \E id \in ModIds : ModToolCall(kind, id)
    \/ \E i \in 1..MaxOps : ModTimeout(i)
    \/ \E c \in Conns : \E e \in ModGatewayEvents : ModEmit(c, e)
    \/ \E k \in Conns : ModConnectBegin(k)
    \/ \E k \in Conns : ModConnectDisconnected(k)
    \/ \E k \in Conns : ModConnectCreate(k)
    \/ \E k \in Conns : ModConnectEstablished(k)
    \/ \E k \in Conns : ModConnectRejected(k)
    \/ \E k \in Conns : ModConnectReturn(k)
    \/ ModDisconnectBegin
    \/ \E n \in 1..MaxDisc : ModDisconnectDisconnected(n)
    \/ \E n \in 1..MaxDisc : ModDisconnectFinish(n)
    \/ \E k \in Conns : ModDisconnected(k)

----------------------------------------------------------------------------
(* The rate limiter and id allocator on their own: the calls of getNextReqId  *)
(* that the request-issuing tools of the secure and the enhanced server make, *)
(* at non-decreasing clock readings.                                          *)

\* clock advances, in ms: one below the window, and the step that completes it
TickSteps == {RATE_WINDOW_MS - 1, 1}

\* a tool calls getNextReqId() (part_002:62-65, part_003:66-69)
RateCall ==
    /\ server = "limiter"
    /\ LET r == getNextReqId(requestTimestamps, now, requestCounter)
       IN /\ requestTimestamps' = r.stamps
          /\ requestCounter' = r.counter
          /\ admitLog' = logged(admitLog, now, r.ok)
          /\ lastAct' = Act("tool", r.ok, <<>>,
                            IF r.ok THEN "pending" ELSE "Rate limit exceeded")
    /\ UNCHANGED <<server, arrivals, enhanced, ib, isConnected, activeSubscriptions, eventListenerCleanup,
                   envVars, callVars, modularVars>>

\* Date.now() advances
Tick(d) ==
    /\ IF server = "greeks" THEN enhanced.phase \in {"collecting", "mapping"}
       ELSE server = "limiter"
    /\ ticks < MaxTicks
    /\ now' = now + d
    /\ ticks' = ticks + 1
    /\ admitLog' = recent(admitLog, now + d)
    /\ lastAct' = Act("tick", FALSE, <<>>, "none")
    /\ UNCHANGED <<server, arrivals, enhanced, secureVars, emitters, transport, callVars, modularVars>>

----------------------------------------------------------------------------
(* Enhanced server (part_003): getPositions and getPortfolioGreeks collect  *)
(* the position events for REQUEST_TIMEOUT and then fetch the Greeks of the *)
(* option positions with getGreeksForPositions.  The server has the module  *)
(* state, the limiter and the listener registry of the secure server        *)
(* (part_003:31-36, 51-101), and no disconnect tool.                        *)

EnhancedTools == {"getPositions", "getPortfolioGreeks"}

\* the numbers of option positions the collected snapshot may hold
PositionCounts == {0, 1, 2, MAX_REQUESTS_PER_SECOND + 1, MaxPositions}

\* no call made yet
NoCall == [phase |-> "idle", tool |-> "-", includeGreeks |-> FALSE, n |-> 0, subs |-> <<>>]

\* the batch of the for loop that the promise of position j belongs to
batchOf(j) == (j - 1) \div POSITION_DETAILS_BATCH_SIZE

\* the executor of the promise of one position: r is what getNextReqId() did.
\*   A throw of getNextReqId() inside the executor rejects the promise; no
\*   timer, no handler and no request exist for it.
greeksExecutor(subs, r) ==
    IF r.ok
    THEN Append(subs, [id |-> r.id, state |-> "pending", once |-> TRUE, greeks |-> "absent"])
    ELSE Append(subs, [id |-> GlobalScope, state |-> "rejected", once |-> FALSE,
                       greeks |-> "absent"])

\* the for loop over the batches from batch k on: it awaits Promise.all of each
\* batch in turn; Promise.all rejects with the first rejected promise
RECURSIVE awaitBatches(_, _)
awaitBatches(subs, k) ==
    LET batch == {j \in 1..Len(subs) : batchOf(j) = k}
    IN IF batch = {} THEN "done"
       ELSE IF \E j \in batch : subs[j].state = "rejected" THEN "rejected"
       ELSE IF \E j \in batch : subs[j].state = "pending" THEN "pending"
       ELSE awaitBatches(subs, k + 1)

\* the timeout callback of the tool from `await getGreeksForPositions(...)` on:
\*   the loop ends and the callback resolves the tool's promise, or the await
\*   throws: the callback is an async function nobody awaits, so the rejection
\*   goes to process.on('unhandledRejection'), which logs it (part_003:1192-1194)
afterGreeks(s, e) ==
    IF e.phase \notin {"mapping", "awaiting"} \/ Len(e.subs) < e.n THEN <<s, e>>
    ELSE LET o == awaitBatches(e.subs, 0)
         IN CASE o = "done" -> <<resolve(s, 1, "greeks"), [e EXCEPT !.phase = "returned"]>>
              [] o = "rejected" -> <<s, [e EXCEPT !.phase = "abandoned"]>>
              [] OTHER -> <<s, [e EXCEPT !.phase = "awaiting"]>>

\* what the caller of the tool has been given at this point
replyOf(e) ==
    CASE e.phase = "returned" -> "result"
      [] e.phase = "abandoned" -> "unhandledRejection"
      [] OTHER -> "pending"

\* getPositions or getPortfolioGreeks is called (part_003:318-330, 443-445,
\* 569-580, 712-727): the guard, the timer, the two listeners, reqPositions()
EnhancedCall(tool, includeGreeks) ==
    /\ server = "greeks"
    /\ ~crashed
    /\ enhanced.phase = "idle"
    /\ tool = "getPortfolioGreeks" => includeGreeks
    /\ IF ib = NoConn \/ ~isConnected
       THEN /\ enhanced' = [enhanced EXCEPT !.phase = "returned", !.tool = tool]
            /\ lastAct' = Act(tool, FALSE, <<>>, "Not connected to TWS")
            /\ UNCHANGED <<isConnected, activeSubscriptions, eventListenerCleanup,
                           emitters, ops, crashed>>
       ELSE LET s0 == [Snapshot EXCEPT !.ops = Append(@, NewOp(tool, GlobalScope))]
                s1 == addListeners(s0, <<"position", "positionEnd">>, 1, GlobalScope)
                s == send(s1, "reqPositions", GlobalScope)
            IN /\ Commit(s)
               /\ enhanced' = [enhanced EXCEPT !.phase = "collecting", !.tool = tool,
                                               !.includeGreeks = includeGreeks]
               /\ lastAct' = ActOf(s, tool, FALSE, "pending")
    /\ UNCHANGED <<server, arrivals, admitLog, ib, requestCounter, requestTimestamps,
                   now, ticks, transport, connectCalls, discCalls, modularVars>>

\* the gateway client emits positionEnd while the tool collects: the
\* positionEndHandler of getPositions (part_003:437-439) and the positionEnd
\* listener of getPortfolioGreeks (part_003:723) have an empty body
PositionEnd ==
    /\ server = "greeks"
    /\ ~crashed
    /\ enhanced.phase = "collecting"
    /\ \E n \in 1..Len(emitters[ib]) : emitters[ib][n].ev = "positionEnd"
    /\ lastAct' = [Act("event", FALSE, <<>>, "pending")
                      EXCEPT !.event = Event("positionEnd", GlobalScope, "-", 0)]
    /\ UNCHANGED <<server, arrivals, enhanced, admitLog, secureVars, envVars, callVars,
                   modularVars>>

\* the REQUEST_TIMEOUT callback of the tool fires, n option positions having
\* been collected (part_003:331-358, 580-600): cleanupListeners, then the
\* result without Greeks, or the call of getGreeksForPositions, whose
\* positions.map(...) starts
PositionsTimeout(n) ==
    /\ server = "greeks"
    /\ ~crashed
    /\ enhanced.phase = "collecting"
    /\ LET s1 == cleanupListeners([Snapshot EXCEPT !.ops[1].timer = "fired"],
                                  <<"position", "positionEnd">>, GlobalScope)
           plain == n = 0 \/ ~enhanced.includeGreeks
           s == IF plain THEN resolve(s1, 1, "timeout") ELSE s1
           e == [enhanced EXCEPT !.phase = IF plain THEN "returned" ELSE "mapping",
                                 !.n = n]
       IN /\ Commit(s)
          /\ enhanced' = e
          /\ lastAct' = ActOf(s, "timeout", FALSE, replyOf(e))
    /\ UNCHANGED <<server, arrivals, admitLog, ib, requestCounter, requestTimestamps,
                   now, ticks, transport, connectCalls, discCalls, modularVars>>

\* one iteration of positions.map(...) (part_003:1088-1129): the executor of
\* the next position's promise runs; after the last one the for loop starts
GreeksExecutor ==
    /\ server = "greeks"
    /\ ~crashed
    /\ enhanced.phase = "mapping"
    /\ Len(enhanced.subs) < enhanced.n
    /\ LET r == getNextReqId(requestTimestamps, now, requestCounter)
           s0 == IF r.ok THEN send(Snapshot, "reqMktData", r.id) ELSE Snapshot
           e0 == [enhanced EXCEPT !.subs = greeksExecutor(@, r)]
           se == afterGreeks(s0, e0)
       IN /\ requestTimestamps' = r.stamps
          /\ requestCounter' = r.counter
          /\ Commit(se[1])
          /\ enhanced' = se[2]
          /\ lastAct' = ActOf(se[1], "executor", r.ok, replyOf(se[2]))
    /\ UNCHANGED <<server, arrivals, admitLog, ib, now, ticks, transport, connectCalls,
                   discCalls, modularVars>>

\* the 3-second timer of sub-request j fires (part_003:1091-1094); timers of
\* one duration fire in the order they were set
GreeksTimeout(j) ==
    /\ server = "greeks"
    /\ ~crashed
    /\ enhanced.phase \notin {"idle", "collecting", "mapping"}
    /\ j \in 1..Len(enhanced.subs)
    /\ enhanced.subs[j].state = "pending"
    /\ \A i \in 1..(j - 1) : enhanced.subs[i].state # "pending"
    /\ LET s0 == send(Snapshot, "cancelMktData", enhanced.subs[j].id)
           e0 == [enhanced EXCEPT !.subs[j].state = "resolved"]
           se == afterGreeks(s0, e0)
       IN /\ Commit(se[1])
          /\ enhanced' = se[2]
          /\ lastAct' = ActOf(se[1], "greeksTimeout", FALSE, replyOf(se[2]))
    /\ UNCHANGED <<server, arrivals, admitLog, ib, requestCounter, requestTimestamps,
                   now, ticks, transport, connectCalls, discCalls, modularVars>>

\* the ticker ids the gateway sends option computations for: those of the
\* first sub-requests
GreeksEventIds == {INITIAL_REQUEST_COUNTER + k : k \in 0..MaxCount}

\* greeksHandler of sub-request j called with an event of ticker id
\* (part_003:1096-1120)
greeksHandler(se, j, id) ==
    IF se[2].subs[j].id # id THEN se
    ELSE <<send(se[1], "cancelMktData", id),
           [se[2] EXCEPT !.subs[j].greeks = "set",
                         !.subs[j].state = "resolved"]>>

\* the gateway client emits tickOptionComputation for the ticker id of a
\* sub-request that is pending or still has its handler: every handler attached with ib.once(...) (part_003:1125) is
\* removed and called; none may be attached any more
GreeksEvent(id) ==
    /\ server = "greeks"
    /\ ~crashed
    /\ enhanced.phase \notin {"idle", "collecting", "mapping"}
    /\ \E j \in 1..Len(enhanced.subs) :
          enhanced.subs[j].id = id /\ (enhanced.subs[j].once \/ enhanced.subs[j].state = "pending")
    /\ LET hit == {j \in 1..Len(enhanced.subs) :
                      enhanced.subs[j].once /\ enhanced.subs[j].id = id}
           e0 == [enhanced EXCEPT
                    !.subs = [j \in 1..Len(@) |-> [@[j] EXCEPT !.once = FALSE]]]
           s0 == [Snapshot EXCEPT !.event = id]
           \* requestCounter++ gives every sub-request its own id: one handler
           \* at most passes the test `id === tickerId`
           se0 == IF hit = {} THEN <<s0, e0>>
                  ELSE greeksHandler(<<s0, e0>>, CHOOSE j \in hit : TRUE, id)
           se == afterGreeks(se0[1], se0[2])
       IN /\ Commit(se[1])
          /\ enhanced' = se[2]
          /\ lastAct' = [ActOf(se[1], "greeksEvent", FALSE, replyOf(se[2]))
                            EXCEPT !.event = Event("tickOptionComputation", id, "-", 0)]
    /\ UNCHANGED <<server, arrivals, admitLog, ib, requestCounter, requestTimestamps,
                   now, ticks, transport, connectCalls, discCalls, modularVars>>

----------------------------------------------------------------------------
(* Aggregate Greeks of the enhanced server (part_003:605-690, 1138-1162).   *)
(* A number that may be missing is <<>> (null or undefined) or <<v>>; the   *)
(* Greeks and their sums are fixed-point numbers in units of 1/GREEK_SCALE. *)

\* `x || d` on a number that may be missing (0 is falsy as well)
orElse(x, d) == IF x = <<>> \/ x = <<0>> THEN d ELSE x[1]

\* Number.prototype.toFixed(digits) of the fixed-point number x, digits <= 4:
\* the decimal string with that many fraction digits, the nearest one, a tie
\* going away from zero; the string is given by its sign and its digits
toFixed(x, digits) ==
    LET unit == IF digits = 4 THEN 1 ELSE 100
        mag == IF x < 0 THEN -x ELSE x
        n == (2 * mag + unit) \div (2 * unit)
    IN [negative |-> x < 0 /\ n # 0, int |-> n \div (GREEK_SCALE \div unit),
        frac |-> n % (GREEK_SCALE \div unit), digits |-> digits]

\* the loop `for (const pos of positions) if (pos.greeks) {...}`
\* (part_003:1146-1154, and the same statements at 626-632 and 662-668)
RECURSIVE sumGreeks(_)
sumGreeks(positions) ==
    IF positions = <<>> THEN [delta |-> 0, gamma |-> 0, vega |-> 0, theta |-> 0]
    ELSE LET pos == Head(positions)
             rest == sumGreeks(Tail(positions))
             multiplier == pos.position * orElse(pos.multiplier, DEFAULT_MULTIPLIER)
         IN IF pos.greeks = <<>> THEN rest
            ELSE LET g == pos.greeks[1]
                 IN [delta |-> orElse(g.delta, 0) * multiplier + rest.delta,
                     gamma |-> orElse(g.gamma, 0) * multiplier + rest.gamma,
                     vega |-> orElse(g.vega, 0) * pos.position + rest.vega,
                     theta |-> orElse(g.theta, 0) * pos.position + rest.theta]

\* calculateAggregateGreeks(positions) (part_003:1138-1162)
calculateAggregateGreeks(positions) ==
    LET aggregate == sumGreeks(positions)
    IN [delta |-> toFixed(aggregate.delta, 2), gamma |-> toFixed(aggregate.gamma, 4),
        vega |-> toFixed(aggregate.vega, 2), theta |-> toFixed(aggregate.theta, 2)]

\* the portfolio-wide totals of getPortfolioGreeks (part_003:651-700)
portfolioGreeks(positions) ==
    LET total == sumGreeks(positions)
    IN [delta |-> toFixed(total.delta, 2), gamma |-> toFixed(total.gamma, 4),
        vega |-> toFixed(total.vega, 2), theta |-> toFixed(total.theta, 2)]

\* the option positions after getGreeksForPositions: quantity, contract
\* multiplier, and the greeks object of the positions that got one, each Greek
\* 0.5, 0.3 or missing
OptionPositions ==
    [position : {10, -2},
     multiplier : {<<>>, <<1>>},
     greeks : {<<>>} \cup {<<[delta |-> a, gamma |-> b, vega |-> a, theta |-> b]>> :
                              a, b \in {<<>>, <<5000>>, <<3000>>}}]

\* the snapshots of at most MaxAggregated option positions, not yet aggregated
Snapshots ==
    {[tool |-> "-", positions |-> ps, result |-> <<>>] :
        ps \in UNION {[1..n -> OptionPositions] : n \in 0..MaxAggregated}}

\* a tool aggregates the Greeks of the positions it holds
Aggregate(tool) ==
    /\ server = "aggregate"
    /\ enhanced.result = <<>>
    /\ enhanced' = [enhanced EXCEPT
                      !.tool = tool,
                      !.result = IF tool = "getPositions"
                                 THEN <<calculateAggregateGreeks(enhanced.positions)>>
                                 ELSE <<portfolioGreeks(enhanced.positions)>>]
    /\ lastAct' = Act(tool, FALSE, <<>>, "result")
    /\ UNCHANGED <<server, arrivals, admitLog, secureVars, envVars, callVars, modularVars>>

----------------------------------------------------------------------------
(* Complete server (index-complete.ts): getQuote and placeOrder.  Its tools *)
(* attach their handlers with ib.on(...) and never remove them; it has no   *)
(* rate limiter and no listener registry.                                   *)

\* a handler closure of operation h.op called with event e: the tickPrice and
\* tickSize handlers of getQuote (index-complete.ts:411-445) and the
\* orderStatus handler of placeOrder (index-complete.ts:796-825)
completeHandler(s, h, e) ==
    LET i == h.op
        own == e.id = s.ops[i].id
    IN CASE h.ev = "tickPrice" ->
              IF own /\ e.val > 0
              THEN LET s1 == IF e.arg \in CountedTicks
                             THEN [setField(s, i, e.arg) EXCEPT !.ops[i].priceReceived =
                                      IF @ < REQUIRED_PRICES THEN @ + 1 ELSE @]
                             ELSE setField(s, i, e.arg)
                   IN IF s1.ops[i].priceReceived >= REQUIRED_PRICES
                      THEN resolve(subsDelete(send(clearTimeout(s1, i), "cancelMktData",
                                                   s.ops[i].id), s.ops[i].id),
                                   i, "terminal")
                      ELSE s1
              ELSE s
         [] h.ev = "tickSize" -> IF own THEN setField(s, i, e.arg) ELSE s
         [] h.ev = "orderStatus" ->
              IF own THEN resolve(clearTimeout(s, i), i, "terminal") ELSE s
         [] OTHER -> s

\* getQuote or placeOrder is called (index-complete.ts:376-449, 735-830): the
\* guard, getNextReqId(), the timer, the handlers, the request
CompleteCall(kind) ==
    /\ server = "complete"
    /\ ~crashed
    /\ Len(ops) < MaxOps
    /\ IF ib = NoConn
       THEN /\ lastAct' = Act("tool", FALSE, <<>>, "Not connected to TWS")
            /\ UNCHANGED <<requestCounter, isConnected, activeSubscriptions,
                           eventListenerCleanup, emitters, ops, crashed>>
       ELSE LET id == requestCounter
                i == Len(ops) + 1
                s1 == [Snapshot EXCEPT
                         !.ops = Append(@, NewOp(kind, id)),
                         !.subs = IF kind = "getQuote" THEN @ \cup {id} ELSE @,
                         !.emitters[ib] =
                            @ \o IF kind = "getQuote"
                                 THEN <<OpHandler(i, "tickPrice"), OpHandler(i, "tickSize")>>
                                 ELSE <<OpHandler(i, "orderStatus")>>]
                s == send(s1, Request(kind), id)
            IN /\ requestCounter' = requestCounter + 1
               /\ Commit(s)
               /\ lastAct' = ActOf(s, "tool", TRUE, "pending")
    /\ UNCHANGED <<server, arrivals, enhanced, admitLog, ib, requestTimestamps, now, ticks,
                   transport, connectCalls, discCalls, modularVars>>

\* the 3-second timer of operation i fires (index-complete.ts:400-409, 780-794)
CompleteTimeout(i) ==
    /\ server = "complete"
    /\ ~crashed
    /\ i \in 1..Len(ops)
    /\ ops[i].timer = "armed"
    /\ LET s0 == [Snapshot EXCEPT !.ops[i].timer = "fired"]
           s == IF ops[i].kind = "getQuote"
                THEN resolve(subsDelete(send(s0, "cancelMktData", ops[i].id), ops[i].id),
                             i, "timeout")
                ELSE resolve(s0, i, "timeout")
       IN /\ Commit(s)
          /\ lastAct' = ActOf(s, "timeout", FALSE, "none")
    /\ UNCHANGED <<server, arrivals, enhanced, admitLog, ib, requestCounter,
                   requestTimestamps, now, ticks, transport, connectCalls, discCalls,
                   modularVars>>

\* the gateway client emits e: every handler attached for its name is called
CompleteEmit(e) ==
    /\ server = "complete"
    /\ ~crashed
    /\ ib # NoConn
    /\ \E n \in 1..Len(emitters[ib]) : emitters[ib][n].ev = e.name
    /\ LET hs == SelectSeq(emitters[ib], LAMBDA h : h.ev = e.name)
           run[n \in 0..Len(hs)] ==
               IF n = 0 THEN [Snapshot EXCEPT !.event = e.id]
               ELSE completeHandler(run[n - 1], hs[n], e)
           s == run[Len(hs)]
       IN /\ Commit(s)
          /\ lastAct' = [ActOf(s, "event", FALSE, "none") EXCEPT !.event = e]
    /\ UNCHANGED <<server, arrivals, enhanced, admitLog, ib, requestCounter,
                   requestTimestamps, now, ticks, transport, connectCalls, discCalls,
                   modularVars>>

----------------------------------------------------------------------------
(* Specification of the servers *)

InitOf(which) ==
    /\ server \in which
    /\ ib = NoConn
    /\ isConnected = FALSE
    /\ activeSubscriptions = {}
    /\ requestCounter = INITIAL_REQUEST_COUNTER
    /\ requestTimestamps = <<>>
    /\ eventListenerCleanup = <<>>
    /\ now = 0
    /\ ticks = 0
    /\ emitters = [c \in Conns |-> <<>>]
    /\ transport = [c \in Conns |-> "none"]
    /\ ops = <<>>
    /\ connectCalls = [c \in Conns |-> "idle"]
    /\ discCalls = <<>>
    /\ admitLog = <<>>
    /\ arrivals = [i \in 1..MaxOps |-> <<>>]
    /\ crashed = FALSE
    /\ lastAct = Act("start", FALSE, <<>>, "none")
    /\ connection = NoConn
    /\ tws = [obj |-> [c \in Conns |-> [connected |-> FALSE, listening |-> FALSE]],
              target |-> [c \in Conns |-> NoConn],
              disc |-> <<>>]
    /\ IF server = "aggregate" THEN enhanced \in Snapshots ELSE enhanced = NoCall

SecureNext ==
    \/ \E in \in ToolInputs : ToolCall(in)
    \/ \E i \in 1..MaxOps : Timeout(i)
    \/ \E c \in Conns : \E e \in GatewayEvents : Emit(c, e)
    \/ \E c \in Conns : ConnectionClosed(c)
    \/ \E k \in Conns : ConnectBegin(k)
    \/ \E k \in Conns : ConnectCreate(k)
    \/ \E k \in Conns : ConnectEstablished(k)
    \/ \E k \in Conns : \E refused \in BOOLEAN : ConnectRejected(k, refused)
    \/ \E k \in Conns : ConnectReturn(k)
    \/ DisconnectBegin
    \/ DisconnectFinish

\* the secure server called with getPositions only, connecting and reconnecting;
\* the disconnect tool is not called in this run
PositionInputs == {in \in ToolInputs : in.kind = "getPositions"}
PositionEvents == {e \in GatewayEvents : e.name \in {"position", "positionEnd"}}

InitPositions == InitOf({"positions"})

NextPositions ==
    \/ \E in \in PositionInputs : ToolCall(in)
    \/ \E i \in 1..MaxOps : Timeout(i)
    \/ \E c \in Conns : \E e \in PositionEvents : Emit(c, e)
    \/ \E c \in Conns : ConnectionClosed(c)
    \/ \E k \in Conns : ConnectBegin(k)
    \/ \E k \in Conns : ConnectCreate(k)
    \/ \E k \in Conns : ConnectEstablished(k)
    \/ \E k \in Conns : \E refused \in BOOLEAN : ConnectRejected(k, refused)
    \/ \E k \in Conns : ConnectReturn(k)

SpecPositions == InitPositions /\ [][NextPositions]_vars

\* arguments of placeOrder: ValidOrder with one argument changed, or with
\* orderType LMT and a limit price
OrderArgs ==
    {[ValidOrder EXCEPT !.quantity = q] : q \in {0, MAX_ORDER_QUANTITY, MAX_ORDER_QUANTITY + 1}}
    \cup {[ValidOrder EXCEPT !.orderType = t, !.limitPrice = p] :
            t \in {"MKT", "LMT"},
            p \in {<<>>, <<0>>, <<MIN_LIMIT_PRICE>>, <<MAX_LIMIT_PRICE>>,
                   <<MAX_LIMIT_PRICE + 1>>}}
    \cup {[ValidOrder EXCEPT !.symbol = y] :
            y \in {<<>>, <<"a">>, <<"A", ".">>, <<"A", " ">>,
                   [n \in 1..(MAX_SYMBOL_LENGTH + 1) |-> "A"]}}
    \cup {[ValidOrder EXCEPT !.action = a] : a \in {"SELL", "HOLD", "Not connected"}}

\* the secure server called with placeOrder and cancelOrder only; a caller of
\* cancelOrder may also pass the id the next placeOrder will be given (an order
\* of an earlier run of the server)
OrderInputs ==
    {in \in ToolInputs : in.kind \in {"placeOrder", "cancelOrder"}}
    \cup {[kind |-> "cancelOrder", orderId |-> requestCounter, testOrder |-> FALSE,
           order |-> ValidOrder]}
    \cup {[kind |-> "placeOrder", orderId |-> GlobalScope, testOrder |-> t, order |-> o] :
            t \in BOOLEAN, o \in OrderArgs}
OrderEvents == {e \in GatewayEvents : e.name = "orderStatus"}

InitOrders == InitOf({"orders"})

NextOrders ==
    \/ \E in \in OrderInputs : ToolCall(in)
    \/ \E i \in 1..MaxOps : Timeout(i)
    \/ \E c \in Conns : \E e \in OrderEvents : Emit(c, e)
    \/ \E c \in Conns : ConnectionClosed(c)
    \/ \E k \in Conns : ConnectBegin(k)
    \/ \E k \in Conns : ConnectCreate(k)
    \/ \E k \in Conns : ConnectEstablished(k)
    \/ \E k \in Conns : \E refused \in BOOLEAN : ConnectRejected(k, refused)
    \/ \E k \in Conns : ConnectReturn(k)
    \/ DisconnectBegin
    \/ DisconnectFinish

SpecOrders == InitOrders /\ [][NextOrders]_vars

\* the modular server called with streamMarketData and getQuote only
InitStream == InitOf({"stream"})

NextStream ==
    \/ \E in \in StreamInputs : \E rnd \in ModIds : ModStreamCall(in, rnd)
    \/ \E id \in ModIds : ModToolCall("getQuote", id)
    \/ \E i \in 1..MaxOps : ModTimeout(i)
    \/ \E c \in Conns : \E e \in StreamEvents : ModEmit(c, e)
    \/ \E k \in Conns : ModConnectBegin(k)
    \/ \E k \in Conns : ModConnectDisconnected(k)
    \/ \E k \in Conns : ModConnectCreate(k)
    \/ \E k \in Conns : ModConnectEstablished(k)
    \/ \E k \in Conns : ModConnectRejected(k)
    \/ \E k \in Conns : ModConnectReturn(k)
    \/ ModDisconnectBegin
    \/ \E n \in 1..MaxDisc : ModDisconnectDisconnected(n)
    \/ \E n \in 1..MaxDisc : ModDisconnectFinish(n)
    \/ \E k \in Conns : ModDisconnected(k)

SpecStream == InitStream /\ [][NextStream]_vars

\* the modular server called with PortfolioTools.getPositions only; the gateway
\* answers reqPositions with position rows and positionEnd, which carry no
\* request id
InitPortfolio == InitOf({"portfolio"})

NextPortfolio ==
    \/ ModToolCall("getPositions", GlobalScope)
    \/ \E i \in 1..MaxOps : ModTimeout(i)
    \/ \E c \in Conns : \E e \in PositionEvents : ModEmit(c, e)
    \/ \E k \in Conns : ModConnectBegin(k)
    \/ \E k \in Conns : ModConnectDisconnected(k)
    \/ \E k \in Conns : ModConnectCreate(k)
    \/ \E k \in Conns : ModConnectEstablished(k)
    \/ \E k \in Conns : ModConnectRejected(k)
    \/ \E k \in Conns : ModConnectReturn(k)
    \/ ModDisconnectBegin
    \/ \E n \in 1..MaxDisc : ModDisconnectDisconnected(n)
    \/ \E n \in 1..MaxDisc : ModDisconnectFinish(n)
    \/ \E k \in Conns : ModDisconnected(k)

SpecPortfolio == InitPortfolio /\ [][NextPortfolio]_vars

\* the enhanced server called once with getPositions or getPortfolioGreeks,
\* before any connect call or after a connect call has returned; the clock
\* passes one full limiter window at most once
InitGreeks ==
    /\ server = "greeks"
    /\ ib \in {NoConn, 1}
    /\ isConnected = (ib # NoConn)
    /\ activeSubscriptions = {}
    /\ requestCounter = INITIAL_REQUEST_COUNTER
    /\ requestTimestamps = <<>>
    /\ LET s0 == [ib |-> ib, crashed |-> FALSE, cleanup |-> <<>>,
                  emitters |-> [c \in Conns |-> <<>>]]
           s == addListener(s0, "error", GlobalHandler(1, "error"), GlobalScope)
       IN /\ eventListenerCleanup = s.cleanup
          /\ emitters = s.emitters
    /\ now = 0
    /\ ticks = 0
    /\ transport = [c \in Conns |-> IF c = ib THEN "open" ELSE "none"]
    /\ ops = <<>>
    /\ connectCalls = [c \in Conns |-> IF c = ib THEN "returned" ELSE "idle"]
    /\ discCalls = <<>>
    /\ admitLog = <<>>
    /\ arrivals = [i \in 1..MaxOps |-> <<>>]
    /\ crashed = FALSE
    /\ lastAct = Act("start", FALSE, <<>>, "none")
    /\ connection = NoConn
    /\ tws = [obj |-> [c \in Conns |-> [connected |-> FALSE, listening |-> FALSE]],
              target |-> [c \in Conns |-> NoConn],
              disc |-> <<>>]
    /\ enhanced = NoCall

NextGreeks ==
    \/ \E tool \in EnhancedTools : \E includeGreeks \in BOOLEAN :
          EnhancedCall(tool, includeGreeks)
    \/ PositionEnd
    \/ \E n \in PositionCounts : PositionsTimeout(n)
    \/ GreeksExecutor
    \/ \E j \in 1..MaxPositions : GreeksTimeout(j)
    \/ \E id \in GreeksEventIds : GreeksEvent(id)
    \/ ticks = 0 /\ Tick(RATE_WINDOW_MS)

SpecGreeks == InitGreeks /\ [][NextGreeks]_vars

\* the listener registry of the enhanced server on its own: getPositions and
\* getPortfolioGreeks calls that overlap on one connection.  Both tools call
\* addListener without a reqId, so that their keys are 'position-global' and
\* 'positionEnd-global' (part_003:440-441, 723-724).  The gateway answers with
\* rows of stock positions, so that the REQUEST_TIMEOUT callback returns the
\* result without requesting Greeks; the positionEnd listeners have an empty
\* body.
InitRegistry ==
    /\ server = "registry"
    /\ ib = 1
    /\ isConnected = TRUE
    /\ activeSubscriptions = {}
    /\ requestCounter = INITIAL_REQUEST_COUNTER
    /\ requestTimestamps = <<>>
    /\ LET s0 == [ib |-> ib, crashed |-> FALSE, cleanup |-> <<>>,
                  emitters |-> [c \in Conns |-> <<>>]]
           s == addListener(s0, "error", GlobalHandler(1, "error"), GlobalScope)
       IN /\ eventListenerCleanup = s.cleanup
          /\ emitters = s.emitters
    /\ now = 0
    /\ ticks = 0
    /\ transport = [c \in Conns |-> IF c = ib THEN "open" ELSE "none"]
    /\ ops = <<>>
    /\ connectCalls = [c \in Conns |-> IF c = ib THEN "returned" ELSE "idle"]
    /\ discCalls = <<>>
    /\ admitLog = <<>>
    /\ arrivals = [i \in 1..MaxOps |-> <<>>]
    /\ crashed = FALSE
    /\ lastAct = Act("start", FALSE, <<>>, "none")
    /\ connection = NoConn
    /\ tws = [obj |-> [c \in Conns |-> [connected |-> FALSE, listening |-> FALSE]],
              target |-> [c \in Conns |-> NoConn],
              disc |-> <<>>]
    /\ enhanced = NoCall

\* getPositions or getPortfolioGreeks is called while an earlier call may be
\* pending (part_003:318-330, 440-445, 569-580, 723-727)
RegistryCall(tool) ==
    /\ server = "registry"
    /\ ib # NoConn /\ isConnected
    /\ Len(ops) < MaxOps
    /\ LET i == Len(ops) + 1
           s0 == [Snapshot EXCEPT !.ops = Append(@, NewOp(tool, GlobalScope))]
           s1 == addListeners(s0, <<"position", "positionEnd">>, i, GlobalScope)
           s == send(s1, "reqPositions", GlobalScope)
       IN /\ Commit(s)
          /\ lastAct' = ActOf(s, tool, FALSE, "pending")
    /\ UNCHANGED <<server, arrivals, enhanced, admitLog, ib, requestCounter,
                   requestTimestamps, now, ticks, transport, connectCalls, discCalls,
                   modularVars>>

\* the gateway client emits a position event with pos # 0: every attached
\* positionHandler pushes the row (part_003:417-435, 712-721)
RegistryPosition(row) ==
    /\ server = "registry"
    /\ \E n \in 1..Len(emitters[ib]) : emitters[ib][n].ev = "position"
    /\ LET called == {emitters[ib][n].op :
                         n \in {m \in 1..Len(emitters[ib]) : emitters[ib][m].ev = "position"}}
       IN /\ \A i \in called : Len(ops[i].rows) < MaxRows
          /\ ops' = [i \in 1..Len(ops) |->
                        IF i \in called THEN [ops[i] EXCEPT !.rows = Append(@, row)]
                        ELSE ops[i]]
    /\ lastAct' = [Act("event", FALSE, <<>>, "none")
                      EXCEPT !.event = Event("position", GlobalScope, row, 1)]
    /\ UNCHANGED <<server, arrivals, enhanced, admitLog, secureVars, envVars,
                   connectCalls, discCalls, crashed, modularVars>>

\* the REQUEST_TIMEOUT callback of call i (part_003:331-332, 395-413, 580-581):
\* cleanupListeners for both names without a reqId, then the result
RegistryTimeout(i) ==
    /\ server = "registry"
    /\ i \in 1..Len(ops)
    /\ ops[i].timer = "armed"
    /\ LET s1 == cleanupListeners([Snapshot EXCEPT !.ops[i].timer = "fired"],
                                  <<"position", "positionEnd">>, GlobalScope)
           s == resolve(s1, i, "timeout")
       IN /\ Commit(s)
          /\ lastAct' = ActOf(s, "timeout", FALSE, "result")
    /\ UNCHANGED <<server, arrivals, enhanced, admitLog, ib, requestCounter,
                   requestTimestamps, now, ticks, transport, connectCalls, discCalls,
                   modularVars>>

NextRegistry ==
    \/ \E tool \in EnhancedTools : RegistryCall(tool)
    \/ \E row \in Rows : RegistryPosition(row)
    \/ \E i \in 1..MaxOps : RegistryTimeout(i)

SpecRegistry == InitRegistry /\ [][NextRegistry]_vars

\* the aggregation applied to every snapshot of at most MaxAggregated positions
InitAggregate == InitOf({"aggregate"})

NextAggregate == \E tool \in EnhancedTools : Aggregate(tool)

SpecAggregate == InitAggregate /\ [][NextAggregate]_vars

\* the complete server called with getQuote and placeOrder, before any connect
\* call or after a connect call has returned (index-complete.ts:233-258)
InitComplete ==
    /\ server = "complete"
    /\ ib \in {NoConn, 1}
    /\ isConnected = (ib # NoConn)
    /\ activeSubscriptions = {}
    /\ requestCounter = COMPLETE_REQUEST_COUNTER
    /\ requestTimestamps = <<>>
    /\ eventListenerCleanup = <<>>
    /\ emitters = [c \in Conns |-> IF c = ib THEN <<GlobalHandler(1, "error")>> ELSE <<>>]
    /\ now = 0
    /\ ticks = 0
    /\ transport = [c \in Conns |-> IF c = ib THEN "open" ELSE "none"]
    /\ ops = <<>>
    /\ connectCalls = [c \in Conns |-> IF c = ib THEN "returned" ELSE "idle"]
    /\ discCalls = <<>>
    /\ admitLog = <<>>
    /\ arrivals = [i \in 1..MaxOps |-> <<>>]
    /\ crashed = FALSE
    /\ lastAct = Act("start", FALSE, <<>>, "none")
    /\ connection = NoConn
    /\ tws = [obj |-> [c \in Conns |-> [connected |-> FALSE, listening |-> FALSE]],
              target |-> [c \in Conns |-> NoConn],
              disc |-> <<>>]
    /\ enhanced = NoCall

NextComplete ==
    \/ \E kind \in {"getQuote", "placeOrder"} : CompleteCall(kind)
    \/ \E i \in 1..MaxOps : CompleteTimeout(i)
    \/ \E e \in {Event("tickPrice", ops[i].id, t, 1) : i \in 1..Len(ops), t \in PriceTicks}
                \cup {Event("orderStatus", ops[i].id, "Submitted", 0) : i \in 1..Len(ops)} :
          CompleteEmit(e)

SpecComplete == InitComplete /\ [][NextComplete]_vars

Init == InitOf({"secure", "modular"})

Next == SecureNext \/ ModularNext

Spec == Init /\ [][Next]_vars

InitRate == InitOf({"limiter"})

NextRate == RateCall \/ \E d \in TickSteps : Tick(d)

SpecRate == InitRate /\ [][NextRate]_vars

----------------------------------------------------------------------------
(* Properties of the correlation engine and the connection manager *)

\* the IBApi objects a handler of operation i is attached to
attachedOf(i) ==
    {c \in Conns : \E n \in 1..Len(emitters[c]) : emitters[c][n].op = i}

\* the registry entries operation i registered under its id
keysOf(i) ==
    {key \in DOMAIN eventListenerCleanup :
        key[2] = ops[i].id /\ eventListenerCleanup[key].op = i}

\* C1: every operation of the secure server is resolved once and its cleanup
\* runs once: neither the resolve call nor the cleanupListeners call of its
\* resolution path is made a second time, whichever of its terminal event and
\* its timeout comes first.
C1_ResolvedAndCleanedOnce ==
    server = "secure" =>
        \A i \in 1..Len(ops) : ops[i].resolveCalls <= 1 /\ ops[i].cleanupCalls <= 1

\* C2: once an operation is resolved none of its handlers is attached and the
\* registry holds none of the entries it registered under its id, also when
\* two operations of the same kind were pending together.
C2_NothingLeftAfterResolution ==
    server = "secure" =>
        \A i \in 1..Len(ops) :
            ops[i].settled # "pending" => attachedOf(i) = {} /\ keysOf(i) = {}

\* C3: when a disconnect call returns, every operation that was pending when
\* it was called has been resolved by it with a connection-lost failure.
C3_DisconnectResolvesPending ==
    [][(server = "secure" /\ Len(discCalls') < Len(discCalls)) =>
          \A i \in Head(discCalls).pending : ops'[i].settled = "connectionLost"]_vars

\* the number of times a callback sent the pair <<req, id>>
sentTimes(act, req, id) ==
    Cardinality({n \in 1..Len(act.sends) : act.sends[n] = <<req, id>>})

\* C4: an explicit disconnect in the connected state sends cancelMktData once
\* for every market subscription of activeSubscriptions, and when it returns
\* eventListenerCleanup and activeSubscriptions are empty, ib is null and
\* isConnected is false.
C4_DisconnectPostState ==
    [][/\ (server = "secure" /\ Len(discCalls') > Len(discCalls)) =>
              \A id \in activeSubscriptions : sentTimes(lastAct', "cancelMktData", id) = 1
       /\ (server = "secure" /\ Len(discCalls') < Len(discCalls)) =>
              /\ eventListenerCleanup' = <<>>
              /\ activeSubscriptions' = {}
              /\ ib' = NoConn
              /\ isConnected' = FALSE]_vars

\* C5: a disconnect when not connected has no effect.  The disconnect tool of
\* the secure server, called with ib null or isConnected false, changes no
\* state, sends nothing and answers 'Not connected'; TWSConnection.disconnect,
\* called on an object whose connected flag is false, changes no field of any
\* TWSConnection, leaves every session as it is and sends nothing.
C5_DisconnectIdempotent ==
    [][/\ (server = "secure" /\ lastAct'.name = "disconnect"
              /\ (ib = NoConn \/ ~isConnected)) =>
              /\ UNCHANGED <<secureVars, envVars, callVars>>
              /\ lastAct'.sends = <<>>
              /\ lastAct'.reply = "Not connected"
       /\ (server = "modular" /\ lastAct'.name \in {"connect", "disconnect"}
              /\ connection # NoConn /\ ~tws.obj[connection].connected) =>
              /\ tws'.obj = tws.obj
              /\ transport' = transport
              /\ lastAct'.sends = <<>>]_vars

\* C5 witness: the secure server's disconnect tool has answered 'Not connected'
\* to a call made after a disconnect that completed
C5_Witness ==
    /\ server = "secure"
    /\ lastAct.name = "disconnect" /\ lastAct.reply = "Not connected"
    /\ ib = NoConn /\ transport[1] # "none" /\ discCalls = <<>>

\* C6: after the gateway dropped the session (connectionClosed) the secure
\* server is in the state an explicit disconnect leaves: no subscription, no
\* listener binding, no pending operation, isConnected false.
C6_DropLikeDisconnect ==
    (server = "secure" /\ lastAct.name = "dropped") =>
        /\ activeSubscriptions = {}
        /\ eventListenerCleanup = <<>>
        /\ \A i \in 1..Len(ops) : ops[i].settled # "pending"
        /\ ~isConnected

\* the admitted calls whose clock reading lies in the second that ends at t
inWindow(log, t) == {n \in 1..Len(log) : log[n] <= t /\ t - log[n] < RATE_WINDOW_MS}

\* how often the sequence holds the value v
countOf(seq, v) == Cardinality({n \in 1..Len(seq) : seq[n] = v})

\* C7: a call of checkRateLimit made when MAX_REQUESTS_PER_SECOND calls were
\* admitted within the last second is rejected, and a call made when the
\* oldest recorded timestamp is at least one second old is admitted.
C7_CeilingThenSlide ==
    [][lastAct'.name = "tool" =>
          /\ Cardinality(inWindow(admitLog, now)) >= MAX_REQUESTS_PER_SECOND => ~lastAct'.admitted
          /\ (requestTimestamps # <<>> /\ now - requestTimestamps[1] >= RATE_WINDOW_MS)
                => lastAct'.admitted]_vars

\* C7 witness: a call is rejected at the ceiling after the window slid and
\* calls beyond the first 40 were admitted
C7_Witness ==
    /\ server = "limiter"
    /\ lastAct.reply = "Rate limit exceeded"
    /\ requestCounter > INITIAL_REQUEST_COUNTER + MAX_REQUESTS_PER_SECOND

\* C8: the calls admitted within the second that ends now never number more
\* than MAX_REQUESTS_PER_SECOND, and a rejected call records no timestamp and
\* consumes no request id.
C8_WindowInvariant ==
    [][/\ Cardinality(inWindow(admitLog', now')) <= MAX_REQUESTS_PER_SECOND
       /\ (lastAct'.name = "tool" /\ ~lastAct'.admitted) =>
              /\ requestCounter' = requestCounter
              /\ countOf(requestTimestamps', now) = countOf(requestTimestamps, now)
              /\ Len(requestTimestamps') <= Len(requestTimestamps)]_vars

\* C8 witness: a call was rejected with the window full
C8_Witness ==
    /\ server = "limiter"
    /\ lastAct.reply = "Rate limit exceeded"
    /\ Cardinality(inWindow(admitLog, now)) = MAX_REQUESTS_PER_SECOND

\* the requests the claim names
GatedRequests ==
    {"reqPositions", "reqAccountSummary", "reqMktData", "reqSecDefOptParams",
     "placeOrder", "reqOpenOrders", "cancelOrder"}

\* C9: a tool call sends a position, account-summary, market-data,
\* option-parameter, place-order, open-orders or cancel-order request only
\* after checkRateLimit admitted that call.
C9_SendsAreAdmitted ==
    server = "secure" =>
        \A n \in 1..Len(lastAct.sends) :
            lastAct.sends[n][1] \in GatedRequests => lastAct.admitted

C11_ReconnectResets ==
    (server = "secure" /\ lastAct.name = "connect:create") =>
        /\ requestCounter = INITIAL_REQUEST_COUNTER
        /\ requestTimestamps = <<>>
        /\ activeSubscriptions = {}
        /\ \A key \in DOMAIN eventListenerCleanup : eventListenerCleanup[key].conn = ib

\* C12: the accumulator of a getAccountSummary operation of the secure server
\* holds only pairs of accountSummary events that carry its own id, also in
\* the value it resolves with, and an accountSummaryEnd event resolves it only
\* when it carries its own id.
C12_SummaryIsolation ==
    server = "secure" =>
        /\ \A i \in 1..Len(ops) :
              ops[i].kind = "getAccountSummary" =>
                  \A f \in ops[i].fields : f[2] = ops[i].id
        /\ \A n \in 1..Len(lastAct.resolved) :
              LET r == lastAct.resolved[n]
              IN ops[r.op].kind = "getAccountSummary" =>
                    /\ \A f \in r.fields : f[2] = ops[r.op].id
                    /\ r.how = "terminal" => r.by = ops[r.op].id

\* C12 witness: two getAccountSummary operations received rows of their own
\* streams while both were pending, and the end event of the first has just
\* resolved it while the second is still pending
C12_Witness ==
    /\ server = "secure"
    /\ Len(ops) = 2
    /\ ops[1].kind = "getAccountSummary" /\ ops[2].kind = "getAccountSummary"
    /\ ops[2].settled = "pending" /\ ops[2].fields # {}
    /\ Len(lastAct.resolved) = 1
    /\ lastAct.resolved[1].op = 1 /\ lastAct.resolved[1].how = "terminal"
    /\ lastAct.resolved[1].fields # {}


\* C13: every resolution of a getAccountSummary call, on the end event and on
\* the deadline, in the secure server and in PortfolioTools.getAccountSummary,
\* is preceded in the same callback by cancelAccountSummary for the id of that
\* request.
C13_CancelBeforeResolve ==
    \A n \in 1..Len(lastAct.resolved) :
        LET r == lastAct.resolved[n]
        IN ops[r.op].kind = "getAccountSummary" =>
               \E m \in 1..Len(r.sent) : r.sent[m] = <<"cancelAccountSummary", ops[r.op].id>>


\* C14: a getQuote call of the secure server completes from its price handler
\* only when the bid, the ask and the last field of the quote are all populated;
\* a repeated tick of a field already populated does not advance completion.
C14_ThreeDistinctFields ==
    server = "secure" =>
        \A n \in 1..Len(lastAct.resolved) :
            LET r == lastAct.resolved[n]
            IN (ops[r.op].kind = "getQuote" /\ r.how = "terminal") =>
                   CountedTicks \subseteq r.fields


\* C15: when a pending getQuote call of the secure server holds two of the
\* three required fields and its deadline expires, the timer callback sends
\* cancelMktData for its ticker id, resolves the call successfully with exactly
\* the fields it held, and leaves none of its listeners attached or registered.
C15_PartialTimeout ==
    [][\A i \in 1..Len(ops) :
          (/\ server = "secure"
           /\ ops[i].kind = "getQuote"
           /\ ops[i].settled = "pending"
           /\ ops[i].timer = "armed"
           /\ Cardinality(ops[i].fields \cap CountedTicks) = 2
           /\ lastAct'.name = "timeout"
           /\ ops'[i].timer = "fired") =>
              /\ \E n \in 1..Len(lastAct'.resolved) :
                    LET r == lastAct'.resolved[n]
                    IN /\ r.op = i
                       /\ r.outcome = "ok"
                       /\ r.fields = ops[i].fields
                       /\ \E m \in 1..Len(r.sent) : r.sent[m] = <<"cancelMktData", ops[i].id>>
              /\ attachedOf(i)' = {}
              /\ keysOf(i)' = {}]_vars


\* C16: when the deadline of a getQuote, getPositions, getAccountSummary or
\* placeOrder call of the secure server expires and the call has received no
\* row, no field and no status, the call fails with a timeout error: it is not
\* settled with a successful result.
C16_EmptyTimeoutFails ==
    server = "secure" =>
        \A n \in 1..Len(lastAct.resolved) :
            LET r == lastAct.resolved[n]
            IN (/\ ops[r.op].kind \in {"getQuote", "getPositions", "getAccountSummary",
                                       "placeOrder"}
                /\ r.how = "timeout"
                /\ r.rows = <<>> /\ r.fields = {} /\ r.result = "none") =>
                   r.outcome = "error"


\* the rows of a sequence of position events
rowsOf(events) == [n \in 1..Len(events) |-> events[n][1]]

\* the position events that carry a position other than zero
nonZero(events) == SelectSeq(events, LAMBDA a : a[2] # 0)

\* the resolutions of getPositions calls by positionEnd in the last callback
endedPositions ==
    {n \in 1..Len(lastAct.resolved) :
        /\ ops[lastAct.resolved[n].op].kind = "getPositions"
        /\ lastAct.resolved[n].how = "terminal"}

\* C17 as stated: a getPositions call that is resolved by positionEnd returns
\* exactly the rows of the position events delivered to it, in arrival order.
C17_AllRowsInOrder ==
    server = "positions" =>
        \A n \in endedPositions :
            lastAct.resolved[n].rows = rowsOf(arrivals[lastAct.resolved[n].op])

\* C17: a getPositions call that is resolved by positionEnd returns the rows of
\* the position events delivered to it whose position is not zero, in arrival
\* order; the rows of events with position zero are left out.
C17_NonZeroRowsInOrder ==
    server = "positions" =>
        \A n \in endedPositions :
            lastAct.resolved[n].rows = rowsOf(nonZero(arrivals[lastAct.resolved[n].op]))

\* three position events reached a call, one of them with position zero, and
\* positionEnd resolved the call with the two other rows, which differ
C17_Witness ==
    /\ server = "positions"
    /\ \E n \in endedPositions :
          LET r == lastAct.resolved[n]
          IN /\ Len(arrivals[r.op]) = 3
             /\ Len(r.rows) = 2
             /\ r.rows[1] # r.rows[2]


\* C18: a pending placeOrder call of the secure server is resolved by the first
\* orderStatus event that carries its order id, with the status of that event as
\* its result; an orderStatus event that carries another id does not resolve the
\* call and does not change its result.
C18_FirstMatchingStatus ==
    [][\A i \in 1..Len(ops) :
          (/\ server = "orders"
           /\ ops[i].kind = "placeOrder"
           /\ ops[i].settled = "pending"
           /\ lastAct'.name = "event"
           /\ lastAct'.event.name = "orderStatus") =>
              IF lastAct'.event.id = ops[i].id
              THEN \E n \in 1..Len(lastAct'.resolved) :
                      LET r == lastAct'.resolved[n]
                      IN r.op = i /\ r.how = "terminal" /\ r.outcome = "ok"
                         /\ r.result = lastAct'.event.arg
              ELSE /\ ops'[i].settled = "pending"
                   /\ ops'[i].result = ops[i].result]_vars


\* the connect tool calls that have started and have not answered yet
connectsInFlight ==
    {j \in Conns : connectCalls[j] \notin {"idle", "returned", "failed"}}

\* C19: a connect tool call made while another connect call is in flight (secure
\* or modular server) fails at once with a connection error and changes neither
\* the call in flight nor its connection object nor the session of that object.
C19_SecondConnectFails ==
    [][\A k \in Conns :
          (/\ server \in {"secure", "modular"}
           /\ connectsInFlight # {}
           /\ connectCalls[k] = "idle"
           /\ connectCalls'[k] # "idle") =>
              /\ connectCalls'[k] = "failed"
              /\ \A j \in connectsInFlight : connectCalls'[j] = connectCalls[j]
              /\ <<ib, connection, transport, tws>>' = <<ib, connection, transport, tws>>]_vars


\* the IBApi objects whose gateway session is connecting or connected
liveSessions == {c \in Conns : transport[c] \in {"connecting", "open"}}

\* C20: in the modular server at most one gateway session is live (connecting
\* or connected) in every state, whatever the order of the connect and
\* disconnect tool calls and their continuations.
C20_OneLiveSession ==
    server = "modular" => Cardinality(liveSessions) <= 1


\* the IBApi objects whose session is established and has not ended yet
connectedSessions == {c \in Conns : transport[c] \in {"open", "closing"}}

\* C21: a request-issuing tool call made while no gateway session is connected
\* (secure or modular server) answers with the not-connected error, sends
\* nothing, attaches and registers no listener, and takes no request id.
C21_NotConnectedFailsClean ==
    [][(/\ server \in {"secure", "modular"}
        /\ connectedSessions = {}
        /\ lastAct'.name = "tool") =>
           /\ lastAct'.reply = "Not connected to TWS"
           /\ lastAct'.sends = <<>>
           /\ <<emitters, eventListenerCleanup, activeSubscriptions, ops>>'
                 = <<emitters, eventListenerCleanup, activeSubscriptions, ops>>
           /\ <<requestCounter, requestTimestamps>>' = <<requestCounter, requestTimestamps>>]_vars


\* the streamMarketData subscriptions under ticker id t whose handlers are
\* attached to an IBApi object
streaming(t) ==
    {i \in 1..Len(ops) :
        ops[i].kind = "streamMarketData" /\ ops[i].id = t /\ attachedOf(i) # {}}

\* C22: a streamMarketData call with subscribe = false and the ticker id of a
\* subscription sends cancelMktData for that id and leaves no tickPrice or
\* tickSize handler of that subscription attached.
C22_UnsubscribeRemovesHandlers ==
    [][\A t \in ModIds :
          (/\ server = "stream"
           /\ lastAct'.name = "stream:unsubscribe"
           /\ lastAct'.reply = "Unsubscribed from market data"
           /\ lastAct'.sends[1][2] = t
           /\ streaming(t) # {}) =>
              /\ lastAct'.sends = <<<<"cancelMktData", t>>>>
              /\ streaming(t)' = {}]_vars

\* C23: the handlers of a streamMarketData subscription stay attached through
\* every step that is not an unsubscribe call for its ticker id, a getQuote
\* call that completes or times out included.
C23_StreamKeepsHandlers ==
    [][\A i \in 1..Len(ops) :
          (/\ server = "stream"
           /\ ops[i].kind = "streamMarketData"
           /\ attachedOf(i) # {}
           /\ ~(/\ lastAct'.reply = "Unsubscribed from market data"
                /\ lastAct'.sends[1][2] = ops[i].id)) =>
              attachedOf(i)' # {}]_vars

\* C24: a streamMarketData call with subscribe = false attaches no handler and
\* sends no reqMktData, whatever its tickerId argument is (absent and 0
\* included).
C24_UnsubscribeNeverSubscribes ==
    [][(server = "stream" /\ lastAct'.name = "stream:unsubscribe") =>
           /\ emitters' = emitters
           /\ \A n \in 1..Len(lastAct'.sends) : lastAct'.sends[n][1] # "reqMktData"]_vars

\* C25: getGreeksForPositions sends the market-data sub-requests batch by
\* batch: while a sub-request of one batch has been sent and is unresolved, no
\* sub-request of a later batch has been sent.  (A sub-request that is pending
\* now was pending when every later one was sent.)
C25_BatchesInTurn ==
    server = "greeks" =>
        \A i, j \in 1..Len(enhanced.subs) :
            (/\ batchOf(i) < batchOf(j)
             /\ enhanced.subs[j].state # "rejected") =>
                enhanced.subs[i].state # "pending"

\* the sum, over the positions that have the value, of value times quantity
RECURSIVE weightedSum(_, _)
weightedSum(positions, greek) ==
    IF positions = <<>> THEN 0
    ELSE LET pos == Head(positions)
             present == pos.greeks # <<>> /\ pos.greeks[1][greek] # <<>>
         IN (IF present THEN pos.greeks[1][greek][1] * pos.position ELSE 0)
            + weightedSum(Tail(positions), greek)

\* C26: each aggregate that calculateAggregateGreeks and getPortfolioGreeks
\* return is the sum of value times position quantity over the positions whose
\* value is present (in the tool's number format)
C26_QuantityWeightedSum ==
    (server = "aggregate" /\ enhanced.result # <<>>) =>
        /\ enhanced.result[1].delta = toFixed(weightedSum(enhanced.positions, "delta"), 2)
        /\ enhanced.result[1].gamma = toFixed(weightedSum(enhanced.positions, "gamma"), 4)
        /\ enhanced.result[1].vega = toFixed(weightedSum(enhanced.positions, "vega"), 2)
        /\ enhanced.result[1].theta = toFixed(weightedSum(enhanced.positions, "theta"), 2)

\* C27: a getPositions or getPortfolioGreeks call of the enhanced server that
\* was made while connected gets its answer: once its timeout callback is
\* neither collecting positions, nor creating the sub-requests, nor awaiting a
\* batch, the promise returned to the caller is settled
C27_CallAnswered ==
    (/\ server = "greeks"
     /\ Len(ops) = 1
     /\ enhanced.phase \notin {"collecting", "mapping", "awaiting"}) =>
        ops[1].settled # "pending"

\* C28: a placeOrder call with testOrder = true makes no call on the gateway
\* client and leaves requestCounter, the rate window, the listener registry and
\* activeSubscriptions as they are
C28_TestOrderChangesNothing ==
    [][\A in \in OrderInputs :
          (/\ server = "orders"
           /\ in.kind = "placeOrder"
           /\ in.testOrder
           /\ ToolCall(in)) =>
              /\ lastAct'.sends = <<>>
              /\ requestCounter' = requestCounter
              /\ requestTimestamps' = requestTimestamps
              /\ eventListenerCleanup' = eventListenerCleanup
              /\ activeSubscriptions' = activeSubscriptions
              /\ emitters' = emitters
              /\ ops' = ops]_vars

\* a valid test order was validated while an order is pending
C28_Witness ==
    /\ server = "orders"
    /\ lastAct.name = "tool"
    /\ lastAct.reply = "validated"
    /\ requestTimestamps # <<>>
    /\ \E i \in 1..Len(ops) : ops[i].kind = "placeOrder" /\ ops[i].settled = "pending"

\* the arguments break a limit the claim names
outsideLimits(args) ==
    \/ args.quantity < 1
    \/ args.quantity > MAX_ORDER_QUANTITY
    \/ args.limitPrice # <<>> /\ args.limitPrice[1] < MIN_LIMIT_PRICE
    \/ args.limitPrice # <<>> /\ args.limitPrice[1] > MAX_LIMIT_PRICE
    \/ args.symbol = <<>>
    \/ \E n \in 1..Len(args.symbol) : args.symbol[n] \notin ALLOWED_SYMBOLS
    \/ args.orderType = "LMT" /\ args.limitPrice = <<>>

\* C29: a placeOrder call whose quantity is outside [1, MAX_ORDER_QUANTITY],
\* whose limit price is outside [MIN_LIMIT_PRICE, MAX_LIMIT_PRICE], whose symbol
\* fails ALLOWED_SYMBOLS, or that is a LMT order without limit price, fails:
\* nothing is sent to the gateway and no request id is allocated
C29_InvalidOrderNeverSent ==
    [][\A in \in OrderInputs :
          (/\ server = "orders"
           /\ in.kind = "placeOrder"
           /\ outsideLimits(in.order)
           /\ ToolCall(in)) =>
              /\ lastAct'.sends = <<>>
              /\ lastAct'.reply \notin {"pending", "validated"}
              /\ requestCounter' = requestCounter
              /\ requestTimestamps' = requestTimestamps
              /\ ops' = ops]_vars

\* an order over the quantity limit was refused while connected, and so was a
\* LMT order without price in an earlier or later call
C29_Witness ==
    /\ server = "orders"
    /\ lastAct.name = "tool"
    /\ lastAct.reply \in {"Error executing placeOrder", "Invalid symbol format",
                          "Limit price required for limit orders"}
    /\ isConnected
    /\ requestCounter > INITIAL_REQUEST_COUNTER

\* C30: in the modular tool set, whose tools draw their ids with Math.random,
\* no two operations that are pending at the same time hold the same id
C30_UniquePendingIds ==
    server = "modular" =>
        \A i, j \in 1..Len(ops) :
            (/\ i # j
             /\ ops[i].settled = "pending"
             /\ ops[j].settled = "pending") =>
                ops[i].id # ops[j].id

\* C31: in the enhanced server a getPositions or getPortfolioGreeks call that
\* is collecting positions goes on to its result when positionEnd arrives,
\* without waiting for its timeout
C31_PositionEndCompletes ==
    [][(/\ server = "greeks"
        /\ enhanced.phase = "collecting"
        /\ lastAct'.event.name = "positionEnd") =>
           /\ enhanced'.phase # "collecting"
           /\ ops'[1].timer # "armed"]_vars

\* C32: in the complete server, an event that carries the id of a getQuote or
\* placeOrder operation which has already resolved has no effect: the dispatch
\* calls nothing on the gateway client, does not call resolve again, and no
\* handler of the operation is attached
C32_LateEventIgnored ==
    [][\A i \in 1..Len(ops) :
          (/\ server = "complete"
           /\ ops[i].settled # "pending"
           /\ lastAct'.name = "event"
           /\ lastAct'.event.id = ops[i].id) =>
              /\ lastAct'.sends = <<>>
              /\ ops'[i].resolveCalls = ops[i].resolveCalls
              /\ \A n \in 1..Len(emitters[ib]) : emitters[ib][n].op # i]_vars

\* C33: in getGreeksForPositions, a tickOptionComputation event that carries
\* the ticker id of a position whose sub-request is pending (its 3-second timer
\* has not fired) sets that position's greeks, whatever events with other
\* positions' ids came before
C33_OwnEventSetsGreeks ==
    [][\A j \in 1..Len(enhanced.subs) :
          (/\ server = "greeks"
           /\ enhanced.subs[j].state = "pending"
           /\ lastAct'.event.name = "tickOptionComputation"
           /\ lastAct'.event.id = enhanced.subs[j].id) =>
              enhanced'.subs[j].greeks = "set"]_vars

\* C34: in the modular tool set an event tagged with request id X is
\* accumulated only by the operation that issued X: the accumulator of a
\* pending getAccountSummary operation holds only pairs of events that carry
\* its own id, and an end event resolves an operation only when it carries
\* that operation's id.
C34_ModularIsolation ==
    server = "modular" =>
        /\ \A i \in 1..Len(ops) : \A f \in ops[i].fields : f[2] = ops[i].id
        /\ \A n \in 1..Len(lastAct.resolved) :
              LET r == lastAct.resolved[n]
              IN r.how = "terminal" => r.by = ops[r.op].id

\* C35: within the dispatch of one event, a handler that an earlier handler of
\* the same dispatch has removed is not invoked: with two
\* PortfolioTools.getPositions operations pending, the positionEnd handler of
\* the first runs removeAllListeners, so that one positionEnd event calls
\* resolve for the first operation only.
C35_RemovedHandlerNotInvoked ==
    [][(/\ server = "portfolio"
        /\ Len(ops) = 2
        /\ ops[1].settled = "pending" /\ ops[2].settled = "pending"
        /\ lastAct'.name = "event"
        /\ ops'[1].resolveCalls # ops[1].resolveCalls) =>
           ops'[2].resolveCalls = ops[2].resolveCalls]_vars

\* C36: in the secure server, the timeout callback of an operation that was
\* still pending when an explicit disconnect completed (the connection handle
\* is null) runs to completion and resolves its caller; it does not use the
\* null handle.
C36_TimeoutAfterDisconnect ==
    [][\A i \in 1..Len(ops) :
          (/\ server = "secure"
           /\ ib = NoConn /\ ~crashed
           /\ ops[i].settled = "pending" /\ ops[i].timer = "armed"
           /\ lastAct'.name = "timeout"
           /\ ops'[i].timer = "fired") =>
              /\ ~crashed'
              /\ ops'[i].settled = "timeout"]_vars

\* C37: in the secure server, whenever the connect tool returns status
\* 'connected', isConnected is true at that moment, also when an error event
\* with code 502 or 504 or a connectionClosed event was delivered during the
\* stabilisation wait (the disconnect tool is not called in between: the
\* handle is still the one this call created).
C37_ConnectedMeansConnected ==
    (/\ server = "secure"
     /\ lastAct.name = "connect:return"
     /\ ib # NoConn /\ discCalls = <<>>) => isConnected

\* C38: on one connection of the enhanced server, every handler attached
\* through addListener and not yet cleaned up has an entry in
\* eventListenerCleanup that removes exactly that handler, also when two
\* overlapping calls used the same event name and the same scope ('global');
\* so when both calls have run their cleanup none of their handlers is attached.
C38_EveryHandlerTracked ==
    server = "registry" =>
        \A n \in 1..Len(emitters[ib]) :
            \E key \in DOMAIN eventListenerCleanup :
                eventListenerCleanup[key] = emitters[ib][n]

\* C39: in the modular tool set, when two operations that listen to the same
\* event type are pending together, the resolution or the timeout of one
\* leaves the handlers of the other attached (the other can still resolve
\* through its own terminal event).
C39_OtherHandlersStay ==
    [][\A i, j \in 1..Len(ops) :
          (/\ ModRunning
           /\ i # j
           /\ ops[i].kind = ops[j].kind
           /\ ops[i].settled = "pending" /\ ops[j].settled = "pending"
           /\ ops'[i].settled # "pending"
           /\ ops'[j].settled = "pending") =>
              \A n \in 1..Len(emitters[ops[j].api]) :
                  emitters[ops[j].api][n].op = j =>
                      \E m \in 1..Len(emitters'[ops[j].api]) :
                          emitters'[ops[j].api][m] = emitters[ops[j].api][n]]_vars

\* every tickerId of activeSubscriptions belongs to a getQuote operation that
\* was issued and has not resolved
subscriptionsPending ==
    \A id \in activeSubscriptions :
        \E i \in 1..Len(ops) :
            ops[i].kind = "getQuote" /\ ops[i].id = id /\ ops[i].settled = "pending"

\* C40: in the secure server every tickerId in activeSubscriptions belongs to
\* a getQuote operation that was issued and has not resolved, and when such an
\* operation resolves, by its terminal condition or by its timeout, its entry
\* is removed in that callback and cancelMktData is issued for its tickerId
\* exactly once.
C40_SubscriptionResolved ==
    [][server = "secure" =>
          /\ subscriptionsPending'
          /\ \A i \in 1..Len(ops) :
                (/\ ops[i].kind = "getQuote"
                 /\ ops[i].settled = "pending"
                 /\ ops'[i].settled # "pending") =>
                    /\ ops[i].id \in activeSubscriptions
                    /\ ops[i].id \notin activeSubscriptions'
                    /\ sentTimes(lastAct', "cancelMktData", ops[i].id) = 1]_vars

====
